---- MODULE Spec2Model ----
(***************************************************************************)
(* Model of the field codecs of peewee_extra_fields: every field kind has  *)
(* a db_value (external -> canonical, may raise) and a python_value        *)
(* (canonical -> structured).  A state records the last conversion: the    *)
(* field kind, the raw input, the outcome of db_value and, once the stored *)
(* value has been read back, the outcome of python_value.  For the        *)
(* conversions that several threads run on one shared field, descriptor is *)
(* the field they share and threads holds, for each thread, the statement  *)
(* it is at, its local value and its outcome.                              *)
(*                                                                         *)
(* Strings are sequences of one-character strings.  Python integers are    *)
(* unbounded, TLC's are 32 bit wide, so the integers of the positive       *)
(* integer fields are sign + magnitude, the magnitude a big-endian tuple   *)
(* of base-65536 limbs.                                                    *)
(***************************************************************************)
EXTENDS Integers, Sequences, FiniteSets, TLC

VARIABLES field, value, result, decoded, descriptor, threads

vars == <<field, value, result, decoded, descriptor, threads>>

(***************************************************************************)
(* Outcomes of a call.                                                     *)
(***************************************************************************)
\* An outcome is <<status, reason, value>>: status "ok" with the returned
\* value, or the exception class with the rule that raised it.
Ok(v) == <<"ok", "", v>>

Raise(kind, why) == <<kind, why, <<>>>>

NotCalled == <<"none", "", <<>>>>

Status(r) == r[1]

Reason(r) == r[2]

Value(r) == r[3]

(***************************************************************************)
(* Python str primitives.                                                  *)
(***************************************************************************)
LowerSeq == <<"a","b","c","d","e","f","g","h","i","j","k","l","m",
              "n","o","p","q","r","s","t","u","v","w","x","y","z">>

UpperSeq == <<"A","B","C","D","E","F","G","H","I","J","K","L","M",
              "N","O","P","Q","R","S","T","U","V","W","X","Y","Z">>

DigitSeq == <<"0","1","2","3","4","5","6","7","8","9">>

Range(s) == {s[i] : i \in 1..Len(s)}

ascii_lowercase == Range(LowerSeq)

ascii_uppercase == Range(UpperSeq)

digits == Range(DigitSeq)

\* the characters str.strip() removes at both ends
Whitespace == {" ", "\t", "\n", "\r", "\f"}

IndexOf(s, c) == CHOOSE i \in 1..Len(s) : s[i] = c

UpperChar(c) == IF c \in ascii_lowercase THEN UpperSeq[IndexOf(LowerSeq, c)] ELSE c

LowerChar(c) == IF c \in ascii_uppercase THEN LowerSeq[IndexOf(UpperSeq, c)] ELSE c

\* str.upper()
Upper(s) == [i \in 1..Len(s) |-> UpperChar(s[i])]

\* str.lower()
Lower(s) == [i \in 1..Len(s) |-> LowerChar(s[i])]

\* str.strip()
Strip(s) ==
    LET keep == {i \in 1..Len(s) : s[i] \notin Whitespace}
    IN  IF keep = {} THEN <<>>
        ELSE SubSeq(s, CHOOSE i \in keep : \A j \in keep : i <= j,
                       CHOOSE i \in keep : \A j \in keep : j <= i)

\* str.replace(ch, '')
Remove(s, ch) == SelectSeq(s, LAMBDA c : c # ch)

\* str.isdigit() on ASCII text
IsDigit(s) == s # <<>> /\ \A i \in 1..Len(s) : s[i] \in digits

\* int(c) for a decimal digit character
DigitVal(c) == IndexOf(DigitSeq, c) - 1

\* Python slice s[a:b] with 0 <= a, b (0-based, end exclusive, clipped)
Slice(s, a, b) ==
    LET e == IF b > Len(s) THEN Len(s) ELSE b
    IN  IF a >= e THEN <<>> ELSE SubSeq(s, a + 1, e)

\* Python slice s[a:]
SliceFrom(s, a) == Slice(s, a, Len(s))

(***************************************************************************)
(* Python int for the positive integer fields: <<negative, magnitude>>.     *)
(***************************************************************************)
Neg(n) == n[1]

Mag(n) == n[2]

NumLimbs == 5

LimbVals == {0, 1, 32767, 32768, 65535}

\* a magnitude written with fewer limbs, left-padded with zero limbs
PadLimbs(s) ==
    [i \in 1..NumLimbs |->
        IF i <= NumLimbs - Len(s) THEN 0 ELSE s[i - (NumLimbs - Len(s))]]

MagZero == PadLimbs(<<>>)

MagLess(a, b) ==
    \E i \in 1..NumLimbs : a[i] < b[i] /\ \A j \in 1..(i - 1) : a[j] = b[j]

\* a < b on Python ints
IntLess(a, b) ==
    IF Neg(a) /\ ~Neg(b) THEN TRUE
    ELSE IF ~Neg(a) /\ Neg(b) THEN FALSE
    ELSE IF Neg(a) THEN MagLess(Mag(b), Mag(a))
    ELSE MagLess(Mag(a), Mag(b))

\* bool(value) of an int
IntTruthy(v) == Mag(v) # MagZero

PyInt(mag) == <<FALSE, PadLimbs(mag)>>

\* the ints the model feeds to the integer fields (there is no -0)
IntInputs ==
    {<<n, m>> : n \in BOOLEAN, m \in [1..NumLimbs -> LimbVals]}
        \ {<<TRUE, MagZero>>}

IntegerField_min == PyInt(<<>>)

\* 32_767
PositiveSmallIntegerField_max == PyInt(<<32767>>)

\* 2_147_483_647 = 32767 * 65536 + 65535
PositiveIntegerField_max == PyInt(<<32767, 65535>>)

\* 9_223_372_036_854_775_807 = 0x7FFF FFFF FFFF FFFF
PositiveBigIntegerField_max == PyInt(<<32767, 65535, 65535, 65535>>)

PositiveSmallIntegerField_db_value_offbyone(v) ==
    IF IntTruthy(v)
       /\ (IntLess(v, IntegerField_min)
           \/ ~IntLess(v, PositiveSmallIntegerField_max))
    THEN Raise("ValueError", "not a positive integer")
    ELSE Ok(v)

PositiveSmallIntegerField_db_value(v) ==
    IF IntTruthy(v)
       /\ (IntLess(v, IntegerField_min)
           \/ IntLess(PositiveSmallIntegerField_max, v))
    THEN Raise("ValueError", "not a positive integer")
    ELSE Ok(v)

PositiveIntegerField_db_value(v) ==
    IF IntTruthy(v)
       /\ (IntLess(v, IntegerField_min)
           \/ IntLess(PositiveIntegerField_max, v))
    THEN Raise("ValueError", "not a positive integer")
    ELSE Ok(v)

PositiveBigIntegerField_db_value(v) ==
    IF IntTruthy(v)
       /\ (IntLess(v, IntegerField_min)
           \/ IntLess(PositiveBigIntegerField_max, v))
    THEN Raise("ValueError", "not a positive integer")
    ELSE Ok(v)

\* the python_value the three fields inherit: int(value) of a stored int
IntegerField_python_value(v) == Ok(<<Neg(v), Mag(v)>>)

IntKinds == {"PositiveSmallIntegerField", "PositiveIntegerField",
             "PositiveBigIntegerField"}

IntMax(kind) ==
    CASE kind = "PositiveSmallIntegerField" -> PositiveSmallIntegerField_max
      [] kind = "PositiveIntegerField" -> PositiveIntegerField_max
      [] kind = "PositiveBigIntegerField" -> PositiveBigIntegerField_max

(***************************************************************************)
(* Reference tables.  The JSON data files are read at import time; a table *)
(* is a sequence of <<key, attributes...>> rows, looked up by exact key.   *)
(***************************************************************************)
\* country-data.json: <<alpha-2 key, iso3166_a3, iso3166_numeric, name>>
\* (the other attributes of an entry are carried like these)
ISO3166 ==
    << <<<<"a","r">>, <<"a","r","g">>, 32, <<"a","r","g","e","n","t","i","n","a">>>>,
       <<<<"d","e">>, <<"d","e","u">>, 276, <<"g","e","r","m","a","n","y">>>>,
       <<<<"e","s">>, <<"e","s","p">>, 724, <<"s","p","a","i","n">>>>,
       <<<<"g","b">>, <<"g","b","r">>, 826,
         <<"u","n","i","t","e","d"," ","k","i","n","g","d","o","m">>>>,
       <<<<"n","z">>, <<"n","z","l">>, 554,
         <<"n","e","w"," ","z","e","a","l","a","n","d">>>>,
       <<<<"s","e">>, <<"s","w","e">>, 752, <<"s","w","e","d","e","n">>>> >>

\* int2country.json: <<str(iso3166_numeric), alpha-2 key>>
INT2COUNTRY ==
    << <<<<"3","2">>, <<"a","r">>>>,
       <<<<"2","7","6">>, <<"d","e">>>>,
       <<<<"7","2","4">>, <<"e","s">>>>,
       <<<<"8","2","6">>, <<"g","b">>>>,
       <<<<"5","5","4">>, <<"n","z">>>>,
       <<<<"7","5","2">>, <<"s","e">>>> >>

\* languages-data.json: <<alpha-2 key, name>>
ISO639_1 ==
    << <<<<"a","r">>, <<"a","r","a","b","i","c">>>>,
       <<<<"e","n">>, <<"e","n","g","l","i","s","h">>>>,
       <<<<"e","s">>, <<"s","p","a","n","i","s","h">>>> >>

\* currency-data.json: <<alpha-3 key, name, iso4217_numeric>>
ISO4217 ==
    << <<<<"a","r","s">>, <<"p","e","s","o">>, 32>>,
       <<<<"e","r","n">>, <<"n","a","k","f","a">>, 232>>,
       <<<<"u","s","d">>, <<"d","o","l","l","a","r">>, 840>> >>

\* key in table
InTable(table, key) == \E i \in 1..Len(table) : table[i][1] = key

\* table[key] / table.get(key)
Row(table, key) == table[CHOOSE i \in 1..Len(table) : table[i][1] = key]

(***************************************************************************)
(* IBANISOCodeField                                                        *)
(***************************************************************************)
IBANISOCodeField_max_length == 34

\* '%02d' % n for 0 <= n <= 99
TwoDigits(n) == <<DigitSeq[(n \div 10) + 1], DigitSeq[(n % 10) + 1]>>

\* int(digit_string) % m, digit by digit
RECURSIVE DecimalMod(_, _, _)
DecimalMod(ds, m, acc) ==
    IF ds = <<>> THEN acc
    ELSE DecimalMod(Tail(ds), m, (acc * 10 + DigitVal(Head(ds))) % m)

\* the loop of get_iban_checksum: digits are kept, A-Z become ord(x) - 55
RECURSIVE IbanValueDigits(_)
IbanValueDigits(s) ==
    IF s = <<>> THEN <<>>
    ELSE (IF Head(s) \in digits THEN <<Head(s)>>
          ELSE TwoDigits(IndexOf(UpperSeq, Head(s)) + 9))
         \o IbanValueDigits(Tail(s))

\* value.strip().replace(' ', '').replace('-', '').upper()
IbanNormalize(v) == Upper(Remove(Remove(Strip(v), " "), "-"))

\* The error branch formats its message with self, which a staticmethod
\* does not have: the raise statement ends in NameError.
get_iban_checksum(v) ==
    LET n == IbanNormalize(v)
        r == SliceFrom(n, 4) \o Slice(n, 0, 2) \o <<"0", "0">>
    IN  IF \E i \in 1..Len(r) : r[i] \notin digits \cup ascii_uppercase
        THEN Raise("NameError", "self")
        ELSE Ok(TwoDigits(98 - DecimalMod(IbanValueDigits(r), 97, 0)))

IBANISOCodeField_db_value_nolen(v) ==
    LET n == IbanNormalize(v)
        country_code == Lower(Slice(n, 0, 2))
        iban_checksum == Lower(Slice(n, 2, 4))
        computed == get_iban_checksum(n)
    IN  IF n = <<>> THEN Raise("ValueError", "empty string")
        ELSE IF ~InTable(ISO3166, country_code)
        THEN Raise("ValueError", "country code")
        ELSE IF ~IsDigit(iban_checksum)
        THEN Raise("ValueError", "checksum digit")
        ELSE IF Status(computed) # "ok" THEN computed
        ELSE IF Value(computed) # Slice(n, 2, 4)
        THEN Raise("ValueError", "checksum digits")
        ELSE Ok(n)

IBANISOCodeField_db_value(v) ==
    LET n == IbanNormalize(v)
        country_code == Lower(Slice(n, 0, 2))
        iban_checksum == Lower(Slice(n, 2, 4))
        computed == get_iban_checksum(n)
    IN  IF n = <<>> THEN Raise("ValueError", "empty string")
        ELSE IF Len(n) > IBANISOCodeField_max_length
        THEN Raise("ValueError", "34 characters max")
        ELSE IF ~InTable(ISO3166, country_code)
        THEN Raise("ValueError", "country code")
        ELSE IF ~IsDigit(iban_checksum)
        THEN Raise("ValueError", "checksum digit")
        ELSE IF Status(computed) # "ok" THEN computed
        ELSE IF Value(computed) # Slice(n, 2, 4)
        THEN Raise("ValueError", "checksum digits")
        ELSE Ok(n)

\* ' '.join(value[i:i + 4] for i in range(0, len(value), 4))
RECURSIVE IbanPretty(_)
IbanPretty(s) ==
    IF Len(s) <= 4 THEN s
    ELSE Slice(s, 0, 4) \o <<" ">> \o IbanPretty(SliceFrom(s, 4))

IBANISOCodeField_python_value_bban(v) ==
    IF v # <<>>
    THEN LET n == IbanNormalize(v)
         IN  Ok(<<Slice(n, 0, 2), Slice(n, 2, 4), SliceFrom(n, 2),
                  IbanPretty(n), n>>)
    ELSE Ok(v)

\* namedtuple <<country_code, checksum, bban, iban_pretty, iban>>
IBANISOCodeField_python_value(v) ==
    IF v # <<>>
    THEN LET n == IbanNormalize(v)
         IN  Ok(<<Slice(n, 0, 2), Slice(n, 2, 4), SliceFrom(n, 4),
                  IbanPretty(n), n>>)
    ELSE Ok(v)

(***************************************************************************)
(* IANCodeField                                                            *)
(***************************************************************************)
IANCodeField_max_length == 13

IANCodeField_checksum_from == 7

\* str(n) for 0 <= n <= 99
SmallIntStr(n) == IF n < 10 THEN <<DigitSeq[n + 1]>> ELSE TwoDigits(n)

\* sum(int(digit) * (3, 1)[i % 2] for i, digit in enumerate(reversed(s)))
IanWeightedSum(s) ==
    LET RECURSIVE Sum(_)
        Sum(i) ==
            IF i = 0 THEN 0
            ELSE DigitVal(s[Len(s) + 1 - i]) * (IF (i - 1) % 2 = 0 THEN 3 ELSE 1)
                 + Sum(i - 1)
    IN  Sum(Len(s))

\* Returns <<"str", text>>, or <<"exception", "ValueError">>: the except
\* branch returns the caught exception object instead of raising it.
get_ian_checksum(v) ==
    LET body == Slice(v, 0, Len(v) - 1)
    IN  IF \E i \in 1..Len(body) : body[i] \notin digits
        THEN <<"exception", "ValueError">>
        ELSE <<"str", SmallIntStr(10 - (IanWeightedSum(body) % 10))>>

\* a comparison for which the returned exception object equals every text
IanChecksumDiffers_strsonly(checksum, last) ==
    checksum[1] = "str" /\ checksum[2] # <<last>>

\* checksum != value[-1]: an object that is not a str is unequal to any str
IanChecksumDiffers(checksum, last) ==
    ~(checksum[1] = "str" /\ checksum[2] = <<last>>)

IANCodeField_db_value(v) ==
    LET t == Strip(v)
    IN  IF t = <<>> THEN Raise("ValueError", "empty string")
        ELSE IF Len(t) > IANCodeField_max_length
        THEN Raise("ValueError", "13 characters max")
        ELSE IF Len(t) > IANCodeField_checksum_from
                /\ IanChecksumDiffers(get_ian_checksum(t), t[Len(t)])
        THEN Raise("ValueError", "checksum")
        ELSE Ok(t)

(***************************************************************************)
(* SWIFTISOCodeField                                                       *)
(***************************************************************************)
SWIFTISOCodeField_db_value_nobank(v) ==
    LET n == Upper(Remove(Remove(Strip(v), " "), "-"))
        country_code == Lower(Slice(n, 4, 6))
    IN  IF Len(n) = 12 THEN Raise("ValueError", "BIC12")
        ELSE IF n = <<>> THEN Raise("ValueError", "empty string")
        ELSE IF ~(Len(n) = 8 \/ Len(n) = 11)
        THEN Raise("ValueError", "8 or 11 characters")
        ELSE IF ~InTable(ISO3166, country_code)
        THEN Raise("ValueError", "country code")
        ELSE Ok(n)

SWIFTISOCodeField_db_value(v) ==
    LET n == Upper(Remove(Remove(Strip(v), " "), "-"))
        bank_code == Slice(n, 0, 4)
        country_code == Lower(Slice(n, 4, 6))
    IN  IF Len(n) = 12 THEN Raise("ValueError", "BIC12")
        ELSE IF n = <<>> THEN Raise("ValueError", "empty string")
        ELSE IF ~(Len(n) = 8 \/ Len(n) = 11)
        THEN Raise("ValueError", "8 or 11 characters")
        ELSE IF \E i \in 1..Len(bank_code) : bank_code[i] \notin ascii_uppercase
        THEN Raise("ValueError", "bank code")
        ELSE IF ~InTable(ISO3166, country_code)
        THEN Raise("ValueError", "country code")
        ELSE Ok(n)

(***************************************************************************)
(* USSocialSecurityNumberField                                             *)
(***************************************************************************)
USSocialSecurityNumberField_max_length == 11

SsnSeparators == {"-", " "}

\* ^(?P<area>\d{3})[-\ ]?(?P<group>\d{2})[-\ ]?(?P<sri>\d{4})$ on ASCII text:
\* <<matched, area, group, sri>>
SsnRegexMatch(t) ==
    LET s1 == IF Len(t) >= 4 /\ t[4] \in SsnSeparators THEN 1 ELSE 0
        g0 == 3 + s1
        s2 == IF Len(t) >= g0 + 3 /\ t[g0 + 3] \in SsnSeparators THEN 1 ELSE 0
        r0 == g0 + 2 + s2
    IN  IF /\ Len(t) = r0 + 4
           /\ IsDigit(Slice(t, 0, 3))
           /\ IsDigit(Slice(t, g0, g0 + 2))
           /\ IsDigit(Slice(t, r0, r0 + 4))
        THEN <<TRUE, Slice(t, 0, 3), Slice(t, g0, g0 + 2), Slice(t, r0, r0 + 4)>>
        ELSE <<FALSE, <<>>, <<>>, <<>>>>

SsnCanonical(area, group, serial) == area \o <<"-">> \o group \o <<"-">> \o serial

USSocialSecurityNumberField_db_value_no666(v) ==
    LET t == Strip(v)
        match == SsnRegexMatch(t)
        area == match[2]
        group == match[3]
        serial == match[4]
    IN  IF Len(t) # USSocialSecurityNumberField_max_length
        THEN Raise("ValueError", "exactly 11 characters")
        ELSE IF ~match[1] THEN Raise("ValueError", "regex")
        ELSE IF area = <<"0","0","0">> THEN Raise("ValueError", "area all zeroes")
        ELSE IF group = <<"0","0">> THEN Raise("ValueError", "group all zeroes")
        ELSE IF serial = <<"0","0","0","0">>
        THEN Raise("ValueError", "serial all zeroes")
        ELSE IF area[1] = "9" THEN Raise("ValueError", "block 9**")
        ELSE IF \/ (area = <<"0","7","8">> /\ group = <<"0","5">>
                    /\ serial = <<"1","1","2","0">>)
                \/ (area = <<"2","1","9">> /\ group = <<"0","9">>
                    /\ serial = <<"9","9","9","9">>)
        THEN Raise("ValueError", "promo numbers")
        ELSE Ok(SsnCanonical(area, group, serial))

USSocialSecurityNumberField_db_value(v) ==
    LET t == Strip(v)
        match == SsnRegexMatch(t)
        area == match[2]
        group == match[3]
        serial == match[4]
    IN  IF Len(t) # USSocialSecurityNumberField_max_length
        THEN Raise("ValueError", "exactly 11 characters")
        ELSE IF ~match[1] THEN Raise("ValueError", "regex")
        ELSE IF area = <<"0","0","0">> THEN Raise("ValueError", "area all zeroes")
        ELSE IF group = <<"0","0">> THEN Raise("ValueError", "group all zeroes")
        ELSE IF serial = <<"0","0","0","0">>
        THEN Raise("ValueError", "serial all zeroes")
        ELSE IF area = <<"6","6","6">> THEN Raise("ValueError", "block 666")
        ELSE IF area[1] = "9" THEN Raise("ValueError", "block 9**")
        ELSE IF \/ (area = <<"0","7","8">> /\ group = <<"0","5">>
                    /\ serial = <<"1","1","2","0">>)
                \/ (area = <<"2","1","9">> /\ group = <<"0","9">>
                    /\ serial = <<"9","9","9","9">>)
        THEN Raise("ValueError", "promo numbers")
        ELSE Ok(SsnCanonical(area, group, serial))

\* int(s) for a string of decimal digits, most significant first
RECURSIVE StrToInt(_, _)
StrToInt(s, acc) ==
    IF s = <<>> THEN acc ELSE StrToInt(Tail(s), acc * 10 + DigitVal(Head(s)))

USSocialSecurityNumberField_python_value_group(v) ==
    IF v # <<>>
    THEN IF IsDigit(Slice(v, 0, 3)) /\ IsDigit(Slice(v, 3, 5))
            /\ IsDigit(SliceFrom(v, 7))
         THEN Ok(<<v, StrToInt(Slice(v, 0, 3), 0), StrToInt(Slice(v, 3, 5), 0),
                   StrToInt(SliceFrom(v, 7), 0)>>)
         ELSE Raise("ValueError", "int()")
    ELSE Ok(v)

\* namedtuple <<ssn, area, group, serial>>; int() of a text that is not a
\* number raises ValueError
USSocialSecurityNumberField_python_value(v) ==
    IF v # <<>>
    THEN IF IsDigit(Slice(v, 0, 3)) /\ IsDigit(Slice(v, 4, 6))
            /\ IsDigit(SliceFrom(v, 7))
         THEN Ok(<<v, StrToInt(Slice(v, 0, 3), 0), StrToInt(Slice(v, 4, 6), 0),
                   StrToInt(SliceFrom(v, 7), 0)>>)
         ELSE Raise("ValueError", "int()")
    ELSE Ok(v)

(***************************************************************************)
(* LanguageISOCodeField, CountryISOCodeField, CurrencyISOCodeField         *)
(***************************************************************************)
\* a stored int, kept apart from stored text
PyIntValue(n) == <<"int", n>>

IsPyInt(v) == Len(v) = 2 /\ v[1] = "int"

\* str(n) for an int n
RECURSIVE IntToStr(_)
IntToStr(n) ==
    IF n < 0 THEN <<"-">> \o IntToStr(0 - n)
    ELSE IF n < 10 THEN <<DigitSeq[n + 1]>>
    ELSE IntToStr(n \div 10) \o <<DigitSeq[(n % 10) + 1]>>

IsLetter(c) == c \in ascii_lowercase \cup ascii_uppercase

\* str.title()
Title(s) ==
    [i \in 1..Len(s) |->
        IF ~IsLetter(s[i]) THEN s[i]
        ELSE IF i = 1 \/ ~IsLetter(s[i - 1]) THEN UpperChar(s[i])
        ELSE LowerChar(s[i])]

LanguageISOCodeField_db_value(v) ==
    IF v # <<>>
    THEN LET t == Strip(Lower(v))
         IN  IF Len(t) # 2 THEN Raise("ValueError", "not 2 characters long")
             ELSE IF ~InTable(ISO639_1, t)
             THEN Raise("ValueError", "not an ISO-639_1 code")
             ELSE Ok(t)
    ELSE Ok(v)

CountryISOCodeField_db_value_nolower(v) ==
    IF v # <<>>
    THEN LET t == Strip(v)
         IN  IF Len(t) # 2 THEN Raise("ValueError", "not 2 characters long")
             ELSE IF ~InTable(ISO3166, t)
             THEN Raise("ValueError", "not an ISO-3166 code")
             ELSE Ok(PyIntValue(Row(ISO3166, t)[3]))
    ELSE Ok(v)

CountryISOCodeField_db_value(v) ==
    IF v # <<>>
    THEN LET t == Strip(Lower(v))
         IN  IF Len(t) # 2 THEN Raise("ValueError", "not 2 characters long")
             ELSE IF ~InTable(ISO3166, t)
             THEN Raise("ValueError", "not an ISO-3166 code")
             ELSE Ok(PyIntValue(Row(ISO3166, t)[3]))
    ELSE Ok(v)

CurrencyISOCodeField_db_value(v) ==
    IF v # <<>>
    THEN LET t == Strip(Lower(v))
         IN  IF Len(t) # 3 THEN Raise("ValueError", "not 3 characters long")
             ELSE IF ~InTable(ISO4217, t)
             THEN Raise("ValueError", "not an ISO-4217 code")
             ELSE Ok(PyIntValue(Row(ISO4217, t)[3]))
    ELSE Ok(v)

\* namedtuple <<iso3166_a3, iso3166_numeric, name>> (and the attributes
\* carried like them); a missing key of either table raises KeyError
CountryISOCodeField_python_value(v) ==
    IF IsPyInt(v) /\ v[2] # 0
    THEN LET key == IntToStr(v[2])
         IN  IF ~InTable(INT2COUNTRY, key) THEN Raise("KeyError", "INT2COUNTRY")
             ELSE LET code == Row(INT2COUNTRY, key)[2]
                  IN  IF ~InTable(ISO3166, code) THEN Raise("KeyError", "ISO3166")
                      ELSE LET country == Row(ISO3166, code)
                           IN  Ok(<<Upper(country[2]), country[3],
                                    Title(country[4])>>)
    ELSE Ok(v)

\* reverse table of currency-data.json: <<str(iso4217_numeric), alpha-3 key>>
INT2CURRENCY ==
    << <<<<"3","2">>, <<"a","r","s">>>>,
       <<<<"2","3","2">>, <<"e","r","n">>>>,
       <<<<"8","4","0">>, <<"u","s","d">>>> >>

\* namedtuple <<code, name, iso4217_numeric>>; INT2CURRENCY.get and
\* ISO4217.get give None for a missing key, and None has no .get
CurrencyISOCodeField_python_value(v) ==
    IF IsPyInt(v) /\ v[2] # 0
    THEN LET key == IntToStr(v[2])
         IN  IF ~InTable(INT2CURRENCY, key)
             THEN Raise("AttributeError", "ISO4217.get")
             ELSE LET code == Row(INT2CURRENCY, key)[2]
                  IN  IF ~InTable(ISO4217, code)
                      THEN Raise("AttributeError", "ISO4217.get")
                      ELSE LET currency == Row(ISO4217, code)
                           IN  Ok(<<code, Title(currency[2]), currency[3]>>)
    ELSE Ok(v)

(***************************************************************************)
(* ColorHexadecimalField                                                   *)
(***************************************************************************)
HexSeq == <<"0","1","2","3","4","5","6","7","8","9","a","b","c","d","e","f">>

\* int(s, 16) parses: surrounding whitespace, a sign and the prefix 0x are
\* skipped, single underscores may separate the digits
IntBase16Parses(s) ==
    LET t == Strip(s)
        u == IF t # <<>> /\ t[1] \in {"+", "-"} THEN SliceFrom(t, 1) ELSE t
        p == IF Slice(u, 0, 2) = <<"0","x">> THEN SliceFrom(u, 2) ELSE u
        d == IF p # u /\ p # <<>> /\ p[1] = "_" THEN SliceFrom(p, 1) ELSE p
    IN  /\ d # <<>>
        /\ d[1] \in Range(HexSeq)
        /\ d[Len(d)] \in Range(HexSeq)
        /\ \A i \in 1..Len(d) :
            /\ d[i] \in Range(HexSeq) \cup {"_"}
            /\ d[i] = "_" => d[i + 1] # "_"

ColorHexadecimalField_db_value(v) ==
    LET t == Strip(Remove(Lower(v), "-"))
    IN  IF Len(t) # 7 /\ Len(t) # 4
        THEN Raise("ValueError", "not 7 or 4 characters long")
        ELSE IF t[1] # "#" THEN Raise("ValueError", "must start with '#'")
        ELSE IF ~IntBase16Parses(SliceFrom(t, 1))
        THEN Raise("ValueError", "not an hexadecimal")
        ELSE IF Len(t) = 4
        THEN Ok(<<"#", t[2], t[2], t[3], t[3], t[4], t[4]>>)
        ELSE Ok(t)

\* codecs.decode(..., "hex") then struct.unpack('BBB', ...): <<red, green, blue>>
hex2rgb(color_hex) ==
    LET HexVal(c) == IndexOf(HexSeq, LowerChar(c)) - 1
    IN  IF Len(color_hex) % 2 # 0
           \/ \E i \in 1..Len(color_hex) :
                LowerChar(color_hex[i]) \notin Range(HexSeq)
        THEN Raise("binascii.Error", "decoding with 'hex' codec failed")
        ELSE IF Len(color_hex) # 6
        THEN Raise("struct.error", "unpack requires 3 bytes")
        ELSE Ok([i \in 1..3 |->
                    16 * HexVal(color_hex[2 * i - 1]) + HexVal(color_hex[2 * i])])

\* colorsys.rgb_to_hls, rgb_to_hsv and rgb_to_yiq on the byte values c:
\* <<<<h, l, s>>, <<h, s, v>>, <<y, i, q>>>>.  A float is kept as the fraction
\* <<numerator, denominator>> it approximates, before round(x, 2).
ColorSpaces(c) ==
    LET maxc == CHOOSE x \in Range(c) : \A y \in Range(c) : y <= x
        minc == CHOOSE x \in Range(c) : \A y \in Range(c) : x <= y
        sumc == maxc + minc
        rangec == maxc - minc
        \* (h / 6.0) % 1.0
        hue == LET h == IF c[1] = maxc THEN c[2] - c[3]
                        ELSE IF c[2] = maxc THEN 2 * rangec + c[3] - c[1]
                        ELSE 4 * rangec + c[1] - c[2]
               IN  <<h % (6 * rangec), 6 * rangec>>
        y == 30 * c[1] + 59 * c[2] + 11 * c[3]
        ry == 100 * c[1] - y
        by == 100 * c[3] - y
        yiq == <<<<y, 100>>, <<74 * ry - 27 * by, 10000>>,
                 <<48 * ry + 41 * by, 10000>>>>
    IN  IF minc = maxc
        THEN Ok(<<<<<<0, 1>>, <<sumc, 2>>, <<0, 1>>>>,
                  <<<<0, 1>>, <<0, 1>>, <<maxc, 1>>>>, yiq>>)
        ELSE IF sumc > 1 /\ 2 - maxc - minc = 0
        THEN Raise("ZeroDivisionError", "float division by zero")
        ELSE Ok(<<<<hue, <<sumc, 2>>,
                    <<rangec, IF sumc <= 1 THEN sumc ELSE 2 - maxc - minc>>>>,
                  <<hue, <<rangec, maxc>>, <<maxc, 1>>>>, yiq>>)

\* namedtuple <<hex, rgb, hls, hsv, yiq, css, css_prcnt>>
ColorHexadecimalField_python_value(v) ==
    LET rgb == hex2rgb(Remove(v, "#"))
        c == Value(rgb)
        spaces == ColorSpaces(c)
        \* per = lambda val: int(val * 100 / 255)
        per(val) == (val * 100) \div 255
        css(r, g, b, unit) ==
            <<"r","g","b","(">> \o r \o unit \o <<",">> \o g \o unit \o <<",">>
                \o b \o unit \o <<")">>
    IN  IF v = <<>> THEN Ok(v)
        ELSE IF Status(rgb) # "ok" THEN rgb
        ELSE IF Status(spaces) # "ok" THEN spaces
        ELSE Ok(<<v, c, Value(spaces)[1], Value(spaces)[2], Value(spaces)[3],
                  css(IntToStr(c[1]), IntToStr(c[2]), IntToStr(c[3]), <<>>),
                  css(IntToStr(per(c[1])), IntToStr(per(c[2])),
                      IntToStr(per(c[3])), <<"%">>)>>)

(***************************************************************************)
(* _BaseRegexField and the fields derived from it                          *)
(***************************************************************************)
BaseRegexField_min_length == 1

BaseRegexField_max_length == 255

\* SemVerField.regex without its two \b, matched against all of p
SemVerPattern(p) ==
    LET \* (?:0|[1-9]\d*)
        number(x) ==
            \/ x = <<"0">>
            \/ /\ x # <<>>
               /\ x[1] \in digits \ {"0"}
               /\ \A i \in 1..Len(x) : x[i] \in digits
        \* [\da-z-]+(?:\.[\da-z-]+)*
        identifiers(x) ==
            /\ x # <<>>
            /\ x[1] # "."
            /\ x[Len(x)] # "."
            /\ \A i \in 1..Len(x) :
                /\ x[i] \in digits \cup ascii_lowercase \cup {"-", "."}
                /\ x[i] = "." => x[i + 1] # "."
        pre(x) == Len(x) >= 2 /\ x[1] = "-" /\ identifiers(SliceFrom(x, 1))
        build(x) == Len(x) >= 2 /\ x[1] = "+" /\ identifiers(SliceFrom(x, 1))
        \* (?:-identifiers)?(?:\+identifiers)?
        suffix(r) ==
            \/ r = <<>>
            \/ pre(r)
            \/ build(r)
            \/ \E m \in 2..(Len(r) - 2) :
                pre(Slice(r, 0, m)) /\ build(SliceFrom(r, m))
        q == IF p # <<>> /\ p[1] = "v" THEN SliceFrom(p, 1) ELSE p
    IN  \E a \in 1..Len(q) : \E b \in (a + 1)..Len(q) : \E c \in b..Len(q) :
            /\ q[a] = "."
            /\ q[b] = "."
            /\ number(Slice(q, 0, a - 1))
            /\ number(Slice(q, a, b - 1))
            /\ number(Slice(q, b, c))
            /\ suffix(SliceFrom(q, c))

\* re.match(SemVerField.regex, t): the pattern is anchored at the start of t
\* only, so it may match any prefix of t that ends at a word boundary (\b)
SemVerField_regex(t) ==
    LET word(c) ==
            c \in ascii_lowercase \cup ascii_uppercase \cup digits \cup {"_"}
        boundary(k) ==
            (k >= 1 /\ word(t[k])) # (k < Len(t) /\ word(t[k + 1]))
    IN  /\ boundary(0)
        /\ \E k \in 1..Len(t) : SemVerPattern(Slice(t, 0, k)) /\ boundary(k)

USZipCodeField_min_length == 5

USZipCodeField_max_length == 10

\* re.match(r'^\d{5}(?:-\d{4})?$', t)
USZipCodeField_regex(t) ==
    /\ Len(t) \in {5, 10}
    /\ \A i \in 1..Len(t) : IF i = 6 THEN t[i] = "-" ELSE t[i] \in digits

HROIBField_min_length == 10

HROIBField_max_length == 11

\* re.match(r'^\d{11}$', t)
HROIBField_regex(t) == Len(t) = 11 /\ \A i \in 1..Len(t) : t[i] \in digits

ILZipCodeField_min_length == 7

ILZipCodeField_max_length == 8

\* re.match(r'^\d{5}$|^\d{7}$', t)
ILZipCodeField_regex(t) == Len(t) \in {5, 7} /\ \A i \in 1..Len(t) : t[i] \in digits

ROCIFField_min_length == 2

ROCIFField_max_length == 10

\* re.match(r'^(RO)?[0-9]{2,10}', t): the pattern has no end anchor
ROCIFField_regex(t) ==
    LET d == IF Slice(t, 0, 2) = <<"R", "O">> THEN SliceFrom(t, 2) ELSE t
    IN  Len(d) >= 2 /\ d[1] \in digits /\ d[2] \in digits

\* _BaseRegexField.db_value of a field self = <<min_length, max_length, regex>>
\* (its class attributes); the pattern is named by its owner
BaseRegexField_db_value(self, v) ==
    LET t == Strip(v)
        \* re.match(self.regex, value)
        matched == CASE self[3] = "SemVerField" -> SemVerField_regex(t)
                     [] self[3] = "USZipCodeField" -> USZipCodeField_regex(t)
                     [] self[3] = "HROIBField" -> HROIBField_regex(t)
                     [] self[3] = "ILZipCodeField" -> ILZipCodeField_regex(t)
                     [] self[3] = "ROCIFField" -> ROCIFField_regex(t)
    IN  IF Len(t) > self[2] THEN Raise("ValueError", "too long")
        ELSE IF Len(t) < self[1] THEN Raise("ValueError", "too short")
        ELSE IF ~matched THEN Raise("ValueError", "not valid")
        ELSE Ok(t)

SemVerField_db_value(v) ==
    BaseRegexField_db_value(<<BaseRegexField_min_length, BaseRegexField_max_length,
                              "SemVerField">>, v)

\* db_value that tries the pattern before the lengths
USZipCodeField_db_value_regexfirst(v) ==
    LET t == Strip(v)
    IN  IF ~USZipCodeField_regex(t) THEN Raise("ValueError", "not valid")
        ELSE IF Len(t) > USZipCodeField_max_length
        THEN Raise("ValueError", "too long")
        ELSE IF Len(t) < USZipCodeField_min_length
        THEN Raise("ValueError", "too short")
        ELSE Ok(t)

USZipCodeField_db_value(v) ==
    BaseRegexField_db_value(<<USZipCodeField_min_length, USZipCodeField_max_length,
                              "USZipCodeField">>, v)

(***************************************************************************)
(* PastDateTimeField, PastDateField                                        *)
(***************************************************************************)
\* A moment is <<day, tick>>, tick the time of day.  A date object is
\* <<"date", day>>, a datetime object <<"datetime", day, tick>>, and a text
\* <<"str", format, day, tick>>: the moment written in that strptime format,
\* with the format "" for the empty text.  The clock now is a moment, read
\* in one time zone: date.today() is the day of datetime.utcnow().
DateTimeField_formats ==
    <<"%Y-%m-%d %H:%M:%S.%f", "%Y-%m-%d %H:%M:%S", "%Y-%m-%d">>

DateField_formats ==
    <<"%Y-%m-%d", "%Y-%m-%d %H:%M:%S", "%Y-%m-%d %H:%M:%S.%f">>

\* the for loop over self.formats: the first format datetime.strptime parses
\* the text with binds the local variable to the parsed datetime; the
\* variable stays unbound when none does
RECURSIVE TryFormats(_, _)
TryFormats(formats, v) ==
    IF formats = <<>> THEN <<"unbound">>
    ELSE IF v[2] = Head(formats) THEN <<"datetime", v[3], v[4]>>
    ELSE TryFormats(Tail(formats), v)

PastDateTimeField_db_value(v, now) ==
    IF v[1] = "str" /\ v[2] # ""
    THEN LET valid_datetime == TryFormats(DateTimeField_formats, v)
         IN  IF valid_datetime = <<"unbound">>
             THEN Raise("UnboundLocalError", "valid_datetime")
             \* valid_datetime.today() > date.today()
             ELSE Raise("TypeError",
                        "can't compare datetime.datetime to datetime.date")
    \* value > datetime.utcnow()
    ELSE IF v[1] = "datetime" /\ (v[2] > now[1] \/ (v[2] = now[1] /\ v[3] > now[2]))
    THEN Raise("ValueError", "not in the past")
    ELSE Ok(v)

PastDateField_db_value(v, now) ==
    IF v[1] = "str" /\ v[2] # ""
    THEN LET valid_date == TryFormats(DateField_formats, v)
         IN  IF valid_date = <<"unbound">>
             THEN Raise("UnboundLocalError", "valid_date")
             \* valid_date > date.today()
             ELSE IF valid_date[2] > now[1]
             THEN Raise("ValueError", "not in the past")
             ELSE Ok(v)
    \* a datetime is a date: value > date.today()
    ELSE IF v[1] = "datetime"
    THEN Raise("TypeError", "can't compare datetime.datetime to datetime.date")
    ELSE IF v[1] = "date" /\ v[2] > now[1]
    THEN Raise("ValueError", "not in the past")
    ELSE Ok(v)

(***************************************************************************)
(* CharFieldCustom                                                         *)
(***************************************************************************)
\* None, kept apart from every text
None == <<"None">>

\* A character outside ASCII is written as its code point.
NonAscii == {"U+00E9", "U+1F63A"}

\* re.sub(pattern, repl, s) for a pattern [...]+ that matches the characters
\* of class: every maximal run of them becomes repl
RECURSIVE ReSubRuns(_, _, _, _)
ReSubRuns(class, repl, s, i) ==
    IF i > Len(s) THEN <<>>
    ELSE (IF s[i] \notin class THEN <<s[i]>>
          ELSE IF i = 1 \/ s[i - 1] \notin class THEN repl
          ELSE <<>>) \o ReSubRuns(class, repl, s, i + 1)

\* db_value that runs its three checks on the folded value
CharFieldCustom_db_value_latecheck(self, v) ==
    LET lowered == IF v # <<>> /\ self[2] THEN Lower(v) ELSE v
        folded == IF lowered # <<>> /\ self[5] # None
                  THEN ReSubRuns(Range(lowered) \cap NonAscii, self[5], lowered, 1)
                  ELSE lowered
        slug == IF folded # <<>> /\ self[6]
                THEN ReSubRuns(Range(folded) \ (ascii_lowercase \cup ascii_uppercase
                                                \cup digits \cup {"_", "-"}),
                               <<"-">>, folded, 1)
                ELSE folded
    IN  IF folded # <<>> /\ self[1] # 0 /\ ~(Len(folded) >= self[1])
        THEN Raise("ValueError", "too short")
        ELSE IF folded # <<>> /\ self[3] # {} /\ Lower(folded) \in self[3]
        THEN Raise("ValueError", "black-listed")
        ELSE IF folded # <<>> /\ self[4] # {} /\ Lower(folded) \notin self[4]
        THEN Raise("ValueError", "not white-listed")
        ELSE Ok(slug)

\* db_value whose slug pattern is matched without re.IGNORECASE
CharFieldCustom_db_value_casesensitive(self, v) ==
    LET lowered == IF v # <<>> /\ self[2] THEN Lower(v) ELSE v
        folded == IF lowered # <<>> /\ self[5] # None
                  THEN ReSubRuns(Range(lowered) \cap NonAscii, self[5], lowered, 1)
                  ELSE lowered
        slug == IF folded # <<>> /\ self[6]
                THEN ReSubRuns(Range(folded) \ (ascii_lowercase \cup digits
                                                \cup {"_", "-"}),
                               <<"-">>, folded, 1)
                ELSE folded
    IN  IF lowered # <<>> /\ self[1] # 0 /\ ~(Len(lowered) >= self[1])
        THEN Raise("ValueError", "too short")
        ELSE IF lowered # <<>> /\ self[3] # {} /\ Lower(lowered) \in self[3]
        THEN Raise("ValueError", "black-listed")
        ELSE IF lowered # <<>> /\ self[4] # {} /\ Lower(lowered) \notin self[4]
        THEN Raise("ValueError", "not white-listed")
        ELSE Ok(slug)

\* __init__ leaves the descriptor self = <<min_lenght, use_lower, blacklist,
\* whitelist, force_ascii, force_slugify>>, a min_lenght of 0 and an empty
\* black- or whitelist stored as None (here 0 and {})
CharFieldCustom_db_value(self, v) ==
    LET \* value.lower() if self.use_lower
        lowered == IF v # <<>> /\ self[2] THEN Lower(v) ELSE v
        \* re.sub(r"[^\x00-\x7F]+", self.force_ascii, value)
        folded == IF lowered # <<>> /\ self[5] # None
                  THEN ReSubRuns(Range(lowered) \cap NonAscii, self[5], lowered, 1)
                  ELSE lowered
        \* re.sub(r'[^a-z0-9_\-]+', '-', value, flags=re.IGNORECASE)
        slug == IF folded # <<>> /\ self[6]
                THEN ReSubRuns(Range(folded) \ (ascii_lowercase \cup ascii_uppercase
                                                \cup digits \cup {"_", "-"}),
                               <<"-">>, folded, 1)
                ELSE folded
    IN  IF lowered # <<>> /\ self[1] # 0 /\ ~(Len(lowered) >= self[1])
        THEN Raise("ValueError", "too short")
        ELSE IF lowered # <<>> /\ self[3] # {} /\ Lower(lowered) \in self[3]
        THEN Raise("ValueError", "black-listed")
        ELSE IF lowered # <<>> /\ self[4] # {} /\ Lower(lowered) \notin self[4]
        THEN Raise("ValueError", "not white-listed")
        ELSE Ok(slug)

(***************************************************************************)
(* CSVField                                                                *)
(***************************************************************************)
\* str.split(sep) for a non-empty sep: cut at every occurrence of sep, found
\* from the left
RECURSIVE split(_, _)
split(s, sep) ==
    LET at == {i \in 1..(Len(s) - Len(sep) + 1) :
                  SubSeq(s, i, i + Len(sep) - 1) = sep}
        first == CHOOSE i \in at : \A j \in at : i <= j
    IN  IF at = {} THEN <<s>>
        ELSE <<SubSeq(s, 1, first - 1)>>
             \o split(SubSeq(s, first + Len(sep), Len(s)), sep)

\* The outcomes that db_value can have with self = <<separator_character,
\* use_set, use_sorted>>: set(value) is iterated in an order that the hashes
\* of the run decide, so each order of the distinct tokens is possible.
CSVField_db_value(self, v) ==
    LET sep == self[1]
        \* code point order of the characters
        ordered == <<" ", ",", "-">> \o DigitSeq \o <<";">> \o UpperSeq
                   \o <<"_">> \o LowerSeq
        RECURSIVE less(_, _)
        less(x, y) ==
            IF x = <<>> THEN y # <<>>
            ELSE IF y = <<>> THEN FALSE
            ELSE IF x[1] = y[1] THEN less(Tail(x), Tail(y))
            ELSE IndexOf(ordered, x[1]) < IndexOf(ordered, y[1])
        RECURSIVE insert(_, _)
        insert(x, l) ==
            IF l = <<>> THEN <<x>>
            ELSE IF less(x, l[1]) THEN <<x>> \o l
            ELSE <<l[1]>> \o insert(x, Tail(l))
        RECURSIVE sorted(_)
        sorted(l) == IF l = <<>> THEN <<>> ELSE insert(l[1], sorted(Tail(l)))
        RECURSIVE join(_)
        join(l) == IF Len(l) = 1 THEN l[1] ELSE l[1] \o sep \o join(Tail(l))
        list == split(v, sep)
        \* set(value), listed in one of its orders
        orders(l) ==
            {o \in [1..Cardinality(Range(l)) -> Range(l)] : Range(o) = Range(l)}
        values == IF self[2] THEN orders(list) ELSE {list}
    IN  IF v = <<>> THEN {Ok(v)}
        ELSE IF sep = <<>> THEN {Raise("ValueError", "empty separator")}
        ELSE {Ok(join(IF self[3] THEN sorted(o) ELSE o)) : o \in values}

\* tuple(value.split(self.separator_character) if value else [])
CSVField_python_value(self, v) ==
    IF v = <<>> THEN Ok(<<>>)
    ELSE IF self[1] = <<>> THEN Raise("ValueError", "empty separator")
    ELSE Ok(split(v, self[1]))

(***************************************************************************)
(* PositiveFloatField and PositiveDecimalField.  A number is <<type, n>>   *)
(* and stands for n / 1000; an int is <<"int", n>> and stands for n.       *)
(***************************************************************************)
\* round(n / 1000, ndigits) and Decimal.quantize(Decimal(10) ** -ndigits), in
\* thousandths: the nearest multiple of 10 ** -ndigits, a tie going to the
\* even one
RoundHalfEven(n, ndigits) ==
    LET q == IF ndigits = 1 THEN 100 ELSE IF ndigits = 2 THEN 10 ELSE 1
        low == n \div q
        rest == n % q
    IN  IF 2 * rest < q \/ (2 * rest = q /\ low % 2 = 0) THEN low * q
        ELSE (low + 1) * q

\* PositiveFloatField(round_by): the descriptor <<round_by>>, or the error
PositiveFloatField_init(round_by) ==
    IF round_by[1] = "int" /\ round_by[2] <= 0
    THEN Raise("ValueError", "round_by")
    ELSE IF round_by[1] = "int" /\ round_by[2] > 0 THEN Ok(<<round_by>>)
    ELSE Ok(<<None>>)

PositiveFloatField_db_value(self, v) ==
    IF v # None /\ v[2] # 0 /\ v[2] < 0 THEN Raise("ValueError", "not positive")
    ELSE IF v # None /\ v[2] # 0 /\ self[1] # None
    THEN Ok(<<v[1], RoundHalfEven(v[2], self[1][2])>>)
    ELSE Ok(v)

PositiveDecimalField_init(round_by) ==
    IF round_by[1] = "int" /\ round_by[2] <= 0
    THEN Raise("ValueError", "round_by")
    ELSE IF round_by[1] = "int" /\ round_by[2] > 0 THEN Ok(<<round_by>>)
    ELSE Ok(<<None>>)

\* Decimal(value).quantize(Decimal(10) ** -self.round_by).normalize()
PositiveDecimalField_db_value(self, v) ==
    IF v # None /\ v[2] # 0 /\ v[2] < 0 THEN Raise("ValueError", "not positive")
    ELSE IF v # None /\ v[2] # 0 /\ self[1] # None
    THEN Ok(<<"Decimal", RoundHalfEven(v[2], self[1][2])>>)
    ELSE Ok(v)

(***************************************************************************)
(* IPAddressField.  A 128 bit number is the tuple of its eight 16 bit      *)
(* parts, the most significant first; an int is <<"int", parts>>, an       *)
(* address <<"IPv4Address", parts>> or <<"IPv6Address", parts>>.           *)
(***************************************************************************)
\* ipaddress.ip_address(address) of a text: IPv4Address(address) if that
\* parses, else IPv6Address(address), else ValueError
ip_address(address) ==
    LET RECURSIVE number(_, _, _)
        number(s, base, acc) ==
            IF s = <<>> THEN acc
            ELSE number(Tail(s), base,
                        acc * base + IndexOf(HexSeq, LowerChar(s[1])) - 1)
        \* _parse_octet: -1 stands for its ValueError
        below256(n) == IF n > 255 THEN -1 ELSE n
        octet(s) ==
            IF s = <<>> \/ ~IsDigit(s) \/ Len(s) > 3 THEN -1
            ELSE IF s # <<"0">> /\ s[1] = "0" THEN -1
            ELSE below256(number(s, 10, 0))
        packed(a, b, c, d) ==
            IF -1 \in {a, b, c, d} THEN <<>> ELSE <<a * 256 + b, c * 256 + d>>
        \* IPv4Address._ip_int_from_string: the two low parts, <<>> for
        \* AddressValueError
        octets4(s, octets) ==
            IF s = <<>> \/ Len(octets) # 4 THEN <<>>
            ELSE packed(octet(octets[1]), octet(octets[2]),
                        octet(octets[3]), octet(octets[4]))
        v4(s) == octets4(s, split(s, <<".">>))
        \* _parse_hextet
        hextet(s) ==
            IF s = <<>> \/ Len(s) > 4
               \/ \E i \in 1..Len(s) : LowerChar(s[i]) \notin Range(HexSeq)
            THEN -1
            ELSE number(s, 16, 0)
        part(parts, i) ==
            IF parts[i] # <<>> /\ parts[i][1] = "dotted"
            THEN parts[i][2] ELSE hextet(parts[i])
        parsed(ip) == IF \E i \in 1..8 : ip[i] = -1 THEN <<>> ELSE ip
        \* parts_hi parts from the left, parts_lo from the right, zeros between
        spread(parts, parts_hi, parts_lo) ==
            IF 8 - (parts_hi + parts_lo) < 1 THEN <<>>
            ELSE parsed([i \in 1..8 |->
                            IF i <= parts_hi THEN part(parts, i)
                            ELSE IF i > 8 - parts_lo
                            THEN part(parts, Len(parts) - (8 - i))
                            ELSE 0])
        \* the address has one "::", at skip_index
        skipped(parts, skip_index) ==
            IF parts[1] = <<>> /\ skip_index # 2 THEN <<>>
            ELSE IF parts[Len(parts)] = <<>> /\ skip_index # Len(parts) - 1
            THEN <<>>
            ELSE spread(parts,
                        IF parts[1] = <<>> THEN skip_index - 2 ELSE skip_index - 1,
                        IF parts[Len(parts)] = <<>>
                        THEN Len(parts) - skip_index - 1
                        ELSE Len(parts) - skip_index)
        grouped(parts, skips) ==
            IF Len(parts) > 9 \/ Cardinality(skips) > 1 THEN <<>>
            ELSE IF skips # {} THEN skipped(parts, CHOOSE i \in skips : TRUE)
            ELSE IF Len(parts) # 8 \/ parts[1] = <<>> \/ parts[8] = <<>> THEN <<>>
            ELSE parsed([i \in 1..8 |-> part(parts, i)])
        scanned(parts) ==
            grouped(parts, {i \in 2..(Len(parts) - 1) : parts[i] = <<>>})
        \* an IPv4-style suffix becomes two hexadecimal parts
        suffixed(split_s, last, suffix) ==
            IF "." \in Range(last) /\ suffix = <<>> THEN <<>>
            ELSE scanned(IF "." \in Range(last)
                         THEN SubSeq(split_s, 1, Len(split_s) - 1)
                              \o <<<<"dotted", suffix[1]>>, <<"dotted", suffix[2]>>>>
                         ELSE split_s)
        colons(split_s) ==
            IF Len(split_s) < 3 THEN <<>>
            ELSE suffixed(split_s, split_s[Len(split_s)], v4(split_s[Len(split_s)]))
        \* IPv6Address._ip_int_from_string: the eight parts, or <<>>
        v6(s) == IF s = <<>> THEN <<>> ELSE colons(split(s, <<":">>))
        sixth(ip) ==
            IF ip # <<>> THEN Ok(<<"IPv6Address", ip>>)
            ELSE Raise("ValueError", "does not appear to be an IPv4 or IPv6 address")
        fourth(ip, s) ==
            IF ip # <<>> THEN Ok(<<"IPv4Address", <<0, 0, 0, 0, 0, 0>> \o ip>>)
            ELSE sixth(v6(s))
    IN  fourth(v4(address), address)

\* db_value of a text: an empty text is handed on, any other text is stored
\* as int(ip_address(value))
IPAddressField_db_value(v) ==
    LET stored(a) ==
            IF Status(a) # "ok"
            THEN Raise("ValueError", "not a valid IP v4 or v6 address")
            ELSE Ok(<<"int", Value(a)[2]>>)
    IN  IF v = <<>> THEN Ok(v) ELSE stored(ip_address(v))

\* python_value of a stored int: ip_address(value) takes an int below 2 ** 32
\* for an IPv4 address, and 0 is handed on
IPAddressField_python_value(v) ==
    IF v[2] = <<0, 0, 0, 0, 0, 0, 0, 0>> THEN Ok(v)
    ELSE IF SubSeq(v[2], 1, 6) = <<0, 0, 0, 0, 0, 0>>
    THEN Ok(<<"IPv4Address", v[2]>>)
    ELSE Ok(<<"IPv6Address", v[2]>>)

(***************************************************************************)
(* JSONField.  A text is a tuple of characters; the other values are       *)
(* <<"int", n>>, <<"str", text>>, <<"list", items>> and <<"dict", pairs>>  *)
(* with pairs <<key, value>> in the order of their insertion.              *)
(***************************************************************************)
\* json.loads(s) of a text: the value, or json.JSONDecodeError (which is a
\* ValueError).  Numbers are unsigned ints, \u00e9 is the only \u escape.
json_loads(s) ==
    LET at(i) == IF i <= Len(s) THEN s[i] ELSE "end"
        RECURSIVE ws(_)
        ws(i) == IF at(i) = " " THEN ws(i + 1) ELSE i
        RECURSIVE digitsEnd(_)
        digitsEnd(i) == IF at(i) \in digits THEN digitsEnd(i + 1) ELSE i
        put(pairs, k, v) ==
            IF \E n \in 1..Len(pairs) : pairs[n][1] = k
            THEN [n \in 1..Len(pairs) |->
                     IF pairs[n][1] = k THEN <<k, v>> ELSE pairs[n]]
            ELSE Append(pairs, <<k, v>>)
        \* each returns <<value, index after it>>, or <<>> for an error
        RECURSIVE string(_, _), element(_), items(_, _), members(_, _)
        string(i, acc) ==
            IF at(i) = "end" THEN <<>>
            ELSE IF at(i) = "\"" THEN <<<<"str", acc>>, i + 1>>
            ELSE IF at(i) = "\\"
            THEN IF SubSeq(s, i + 1, IF i + 5 <= Len(s) THEN i + 5 ELSE Len(s))
                    = <<"u", "0", "0", "e", "9">>
                 THEN string(i + 6, Append(acc, "U+00E9"))
                 ELSE IF at(i + 1) \in {"\"", "\\", "/"}
                 THEN string(i + 2, Append(acc, at(i + 1)))
                 ELSE IF at(i + 1) \in {"n", "t", "r", "f"}
                 THEN string(i + 2, Append(acc,
                          CASE at(i + 1) = "n" -> "\n" [] at(i + 1) = "t" -> "\t"
                            [] at(i + 1) = "r" -> "\r" [] OTHER -> "\f"))
                 ELSE <<>>
            ELSE string(i + 1, Append(acc, at(i)))
        element(i) ==
            IF at(i) = "\"" THEN string(i + 1, <<>>)
            ELSE IF at(i) = "0" THEN <<<<"int", 0>>, i + 1>>
            ELSE IF at(i) \in digits
            THEN <<<<"int", StrToInt(SubSeq(s, i, digitsEnd(i) - 1), 0)>>,
                   digitsEnd(i)>>
            ELSE IF at(i) = "["
            THEN IF at(ws(i + 1)) = "]" THEN <<<<"list", <<>>>>, ws(i + 1) + 1>>
                 ELSE items(ws(i + 1), <<>>)
            ELSE IF at(i) = "{"
            THEN IF at(ws(i + 1)) = "}" THEN <<<<"dict", <<>>>>, ws(i + 1) + 1>>
                 ELSE members(ws(i + 1), <<>>)
            ELSE <<>>
        items(i, acc) ==
            LET v == element(i)
                j == ws(v[2])
            IN  IF v = <<>> THEN <<>>
                ELSE IF at(j) = "," THEN items(ws(j + 1), Append(acc, v[1]))
                ELSE IF at(j) = "]" THEN <<<<"list", Append(acc, v[1])>>, j + 1>>
                ELSE <<>>
        members(i, acc) ==
            LET k == string(i + 1, <<>>)
                c == ws(k[2])
                v == element(ws(c + 1))
                j == ws(v[2])
            IN  IF at(i) # "\"" \/ k = <<>> THEN <<>>
                ELSE IF at(c) # ":" \/ v = <<>> THEN <<>>
                ELSE IF at(j) = "," THEN members(ws(j + 1), put(acc, k[1], v[1]))
                ELSE IF at(j) = "}"
                THEN <<<<"dict", put(acc, k[1], v[1])>>, j + 1>>
                ELSE <<>>
        top == element(ws(1))
    IN  IF top = <<>> \/ ws(top[2]) # Len(s) + 1
        THEN Raise("ValueError", "json.JSONDecodeError")
        ELSE Ok(top[1])

\* json.dumps(v, ensure_ascii=ensure_ascii) of a list or dict of ints, texts,
\* lists and dicts
RECURSIVE json_dumps(_, _)
json_dumps(v, ensure_ascii) ==
    LET RECURSIVE joined(_)
        joined(l) == IF l = <<>> THEN <<>>
                     ELSE IF Len(l) = 1 THEN l[1]
                     ELSE l[1] \o <<",", " ">> \o joined(Tail(l))
        RECURSIVE quoted(_)
        quoted(t) ==
            IF t = <<>> THEN <<>>
            ELSE (IF t[1] = "U+00E9" /\ ensure_ascii
                  THEN <<"\\", "u", "0", "0", "e", "9">> ELSE <<t[1]>>)
                 \o quoted(Tail(t))
        \* a key that is an int is written as the text of its digits
        key(k) == <<"\"">> \o (IF k[1] = "int" THEN IntToStr(k[2]) ELSE quoted(k[2]))
                  \o <<"\"">>
    IN  IF v[1] = "int" THEN IntToStr(v[2])
        ELSE IF v[1] = "str" THEN <<"\"">> \o quoted(v[2]) \o <<"\"">>
        ELSE IF v[1] = "list"
        THEN <<"[">> \o joined([i \in 1..Len(v[2]) |->
                                   json_dumps(v[2][i], ensure_ascii)]) \o <<"]">>
        ELSE <<"{">> \o joined([i \in 1..Len(v[2]) |->
                                   key(v[2][i][1]) \o <<":", " ">>
                                   \o json_dumps(v[2][i][2], ensure_ascii)]) \o <<"}">>

\* is_json of a text: json.loads fails with JSONDecodeError, which the
\* except TypeError clause lets through, or succeeds, and then the return
\* statement reads response, which only the except clause assigns
is_json(json_string) ==
    IF Status(json_loads(json_string)) = "ok"
    THEN Raise("UnboundLocalError", "response")
    ELSE json_loads(json_string)

\* db_value with self = <<ensure_ascii>>
JSONField_db_value(self, v) ==
    IF v = <<>> \/ (v[1] \in {"list", "dict"} /\ Len(v[2]) = 0)
    THEN Ok(<<"{", "}">>)
    ELSE IF v[1] \in {"list", "dict"} THEN Ok(json_dumps(v, self[1]))
    ELSE IF Status(is_json(v)) # "ok" THEN is_json(v)
    ELSE IF ~Value(is_json(v)) THEN Raise("ValueError", "")
    ELSE Ok(v)

JSONField_python_value(v) == json_loads(v)

(***************************************************************************)
(* Conversions of several threads on one shared field                      *)
(***************************************************************************)
\* db_value that remembers in the field that the value has been lowered
CharFieldCustom_db_value_statement_memo(self, at, v) ==
    CASE at = "use_lower" ->
            IF v # <<>> /\ self[2]
            THEN <<[self EXCEPT ![2] = FALSE], "min_lenght", Lower(v), NotCalled>>
            ELSE <<self, "min_lenght", v, NotCalled>>
      [] at = "min_lenght" ->
            IF v # <<>> /\ self[1] # 0 /\ ~(Len(v) >= self[1])
            THEN <<self, "done", v, Raise("ValueError", "too short")>>
            ELSE <<self, "blacklist", v, NotCalled>>
      [] at = "blacklist" ->
            IF v # <<>> /\ self[3] # {} /\ Lower(v) \in self[3]
            THEN <<self, "done", v, Raise("ValueError", "black-listed")>>
            ELSE <<self, "whitelist", v, NotCalled>>
      [] at = "whitelist" ->
            IF v # <<>> /\ self[4] # {} /\ Lower(v) \notin self[4]
            THEN <<self, "done", v, Raise("ValueError", "not white-listed")>>
            ELSE <<self, "force_ascii", v, NotCalled>>
      [] at = "force_ascii" ->
            <<self, "force_slugify",
              IF v # <<>> /\ self[5] # None
              THEN ReSubRuns(Range(v) \cap NonAscii, self[5], v, 1) ELSE v,
              NotCalled>>
      [] at = "force_slugify" ->
            <<self, "return",
              IF v # <<>> /\ self[6]
              THEN ReSubRuns(Range(v) \ (ascii_lowercase \cup ascii_uppercase
                                         \cup digits \cup {"_", "-"}),
                             <<"-">>, v, 1)
              ELSE v,
              NotCalled>>
      [] at = "return" -> <<self, "done", v, Ok(v)>>

\* One statement of CharFieldCustom.db_value, run by a thread that is at the
\* statement `at` with the local `value` being v, on the field self that the
\* threads share: <<the field afterwards, the statement the thread is at
\* next, its local value, its outcome>>.  Every statement reads attributes of
\* self and assigns to the local only; none stores into self.
CharFieldCustom_db_value_statement(self, at, v) ==
    CASE at = "use_lower" ->
            \* if value and self.use_lower: value = value.lower()
            <<self, "min_lenght",
              IF v # <<>> /\ self[2] THEN Lower(v) ELSE v, NotCalled>>
      [] at = "min_lenght" ->
            IF v # <<>> /\ self[1] # 0 /\ ~(Len(v) >= self[1])
            THEN <<self, "done", v, Raise("ValueError", "too short")>>
            ELSE <<self, "blacklist", v, NotCalled>>
      [] at = "blacklist" ->
            IF v # <<>> /\ self[3] # {} /\ Lower(v) \in self[3]
            THEN <<self, "done", v, Raise("ValueError", "black-listed")>>
            ELSE <<self, "whitelist", v, NotCalled>>
      [] at = "whitelist" ->
            IF v # <<>> /\ self[4] # {} /\ Lower(v) \notin self[4]
            THEN <<self, "done", v, Raise("ValueError", "not white-listed")>>
            ELSE <<self, "force_ascii", v, NotCalled>>
      [] at = "force_ascii" ->
            \* re.sub(r"[^\x00-\x7F]+", self.force_ascii, value)
            <<self, "force_slugify",
              IF v # <<>> /\ self[5] # None
              THEN ReSubRuns(Range(v) \cap NonAscii, self[5], v, 1) ELSE v,
              NotCalled>>
      [] at = "force_slugify" ->
            \* re.sub(r'[^a-z0-9_\-]+', '-', value, flags=re.IGNORECASE)
            <<self, "return",
              IF v # <<>> /\ self[6]
              THEN ReSubRuns(Range(v) \ (ascii_lowercase \cup ascii_uppercase
                                         \cup digits \cup {"_", "-"}),
                             <<"-">>, v, 1)
              ELSE v,
              NotCalled>>
      [] at = "return" -> <<self, "done", v, Ok(v)>>

(***************************************************************************)
(* State machine.                                                          *)
(***************************************************************************)
Init ==
    /\ field = "none"
    /\ value = <<>>
    /\ result = NotCalled
    /\ decoded = NotCalled
    /\ descriptor = <<>>
    /\ threads = <<>>

\* no conversion has been issued yet
Idle == field = "none"

\* a db_value call: the caller hands a raw value to the field
Call(kind, v, r) ==
    /\ field' = kind
    /\ value' = v
    /\ result' = r
    /\ decoded' = NotCalled
    /\ UNCHANGED <<descriptor, threads>>

\* a python_value call on the canonical value the last db_value stored
Load(kind, d) ==
    /\ field = kind
    /\ Status(result) = "ok"
    /\ Status(decoded) = "none"
    /\ decoded' = d
    /\ UNCHANGED <<field, value, result, descriptor, threads>>

PositiveSmallIntegerFieldDbValue ==
    /\ Idle
    /\ \E v \in IntInputs :
        Call("PositiveSmallIntegerField", v, PositiveSmallIntegerField_db_value(v))

PositiveIntegerFieldDbValue ==
    /\ Idle
    /\ \E v \in IntInputs :
        Call("PositiveIntegerField", v, PositiveIntegerField_db_value(v))

PositiveBigIntegerFieldDbValue ==
    /\ Idle
    /\ \E v \in IntInputs :
        Call("PositiveBigIntegerField", v, PositiveBigIntegerField_db_value(v))

IntegerFieldPythonValue ==
    \E k \in IntKinds : Load(k, IntegerField_python_value(Value(result)))

NextInt ==
    \/ PositiveSmallIntegerFieldDbValue
    \/ PositiveIntegerFieldDbValue
    \/ PositiveBigIntegerFieldDbValue
    \/ IntegerFieldPythonValue

SpecInt == Init /\ [][NextInt]_vars

\* 0 <= n <= max
InRange(n, max) == ~Neg(n) /\ ~MagLess(Mag(max), Mag(n))

(***************************************************************************)
(* C1: for each positive-integer kind, every n with 0 <= n <= max is       *)
(* accepted by db_value and python_value(db_value(n)) = n; every n < 0 and *)
(* every n > max raises ValueError.                                        *)
(***************************************************************************)
C1_PositiveIntRange ==
    field \in IntKinds =>
        IF InRange(value, IntMax(field))
        THEN /\ Status(result) = "ok"
             /\ Value(result) = value
             /\ Status(decoded) \in {"none", "ok"}
             /\ Status(decoded) = "ok" => Value(decoded) = value
        ELSE Status(result) = "ValueError"

C1_Witness ==
    /\ field = "PositiveBigIntegerField"
    /\ value = PositiveBigIntegerField_max
    /\ Status(decoded) = "ok"
    /\ Value(decoded) = value

(***************************************************************************)
(* IBAN conversions.                                                       *)
(***************************************************************************)
MaxIbanBody == 2

\* all strings over a character set, of length 0..n
StringsUpTo(chars, n) == UNION {[1..k -> chars] : k \in 0..n}

Zeros(k) == [i \in 1..k |-> "0"]

IbanInputs ==
    LET countries == {<<"D","E">>, <<"g","b">>, <<"X","X">>}
        checks == [1..2 -> digits] \cup {<<"z","z">>, <<"4">>}
        bodychars == {"0", "A", "z", " ", "-", "!"}
        core(n) ==
            {cc \o ck \o b : cc \in countries, ck \in checks,
                             b \in StringsUpTo(bodychars, n)}
    IN  core(MaxIbanBody)
        \cup {x \o Zeros(k) : x \in core(1), k \in {29, 30}}
        \cup {<<"\t">> \o x \o <<"\n">> : x \in core(1)}
        \cup {<<>>, <<"1">>, <<" ">>, <<"D","E">>,
              <<"D","E","4","4"," ","5","0","0","1"," ","0","5","1","7"," ",
                "5","4","0","7"," ","3","2","4","9"," ","3","1">>,
              <<"G","B","8","2"," ","W","E","S","T"," ","1","2","3","4"," ",
                "5","6","9","8"," ","7","6","5","4"," ","3","2">>,
              <<"D","E","0","0"," ","5","0","0","1"," ","0","5","1","7"," ",
                "5","4","0","7"," ","3","2","4","9"," ","3","1">>}

IBANISOCodeFieldDbValue ==
    /\ Idle
    /\ \E v \in IbanInputs :
        Call("IBANISOCodeField", v, IBANISOCodeField_db_value(v))

IBANISOCodeFieldPythonValue ==
    Load("IBANISOCodeField", IBANISOCodeField_python_value(Value(result)))

NextIban ==
    \/ IBANISOCodeFieldDbValue
    \/ IBANISOCodeFieldPythonValue

SpecIban == Init /\ [][NextIban]_vars

\* N mod 97 for N = the decimal number written by s, a letter standing for
\* the two digits of ord(letter) - 55
RECURSIVE C2_NMod97(_, _)
C2_NMod97(s, acc) ==
    IF s = <<>> THEN acc
    ELSE IF Head(s) \in digits
    THEN C2_NMod97(Tail(s), (acc * 10 + DigitVal(Head(s))) % 97)
    ELSE C2_NMod97(Tail(s), (acc * 100 + IndexOf(UpperSeq, Head(s)) + 9) % 97)

\* the acceptance condition of C2 on a normalized string n
C2_Accepts(n) ==
    /\ n # <<>>
    /\ Len(n) <= 34
    /\ Len(n) >= 4
    /\ InTable(ISO3166, Lower(SubSeq(n, 1, 2)))
    /\ n[3] \in digits /\ n[4] \in digits
    /\ \A i \in 5..Len(n) : n[i] \in digits \cup ascii_uppercase
    /\ LET k == 98 - C2_NMod97(SubSeq(n, 5, Len(n)) \o SubSeq(n, 1, 2)
                                 \o <<"0", "0">>, 0)
       IN  DigitVal(n[3]) * 10 + DigitVal(n[4]) = k

C2_Iff(n) ==
    /\ Status(result) = "ok" <=> C2_Accepts(n)
    /\ Status(result) = "ok" => Value(result) = n

MaxIanTail == 2

IanInputs ==
    LET tailchars == digits \cup {"a", " "}
        prefixes ==
            {<<>>, <<"0","0","0","0","0">>, <<"0","0","0","0","0","0">>,
             <<"5","9","0","1","2","3","4">>,
             <<"5","9","0","1","2","3","4","1","2","3","4">>,
             <<"4","0","1","2","3","4","5","1","2","3","4","5">>,
             <<" ","4","0","1","2","3","4","5","1","2","3">>,
             <<"1","2","3","4","5","6","7","8","9","6","7","6","5","7","5">>}
    IN  {p \o t : p \in prefixes, t \in StringsUpTo(tailchars, MaxIanTail)}

IANCodeFieldDbValue ==
    /\ Idle
    /\ \E v \in IanInputs : Call("IANCodeField", v, IANCodeField_db_value(v))

\* the python_value IANCodeField inherits from CharField: the stored text
CharField_python_value(v) == Ok(v)

IANCodeFieldPythonValue ==
    Load("IANCodeField", CharField_python_value(Value(result)))

NextIan ==
    \/ IANCodeFieldDbValue
    \/ IANCodeFieldPythonValue

SpecIan == Init /\ [][NextIan]_vars

\* S: the digits except the last, weighted 3, 1, 3, ... from the right
C4_S(s) ==
    LET n == Len(s) - 1
        RECURSIVE W(_)
        W(i) == IF i > n THEN 0
                ELSE DigitVal(s[i]) * (IF (n - i) % 2 = 0 THEN 3 ELSE 1) + W(i + 1)
    IN  W(1)

C4_CheckDigitOk(s) == DigitVal(s[Len(s)]) = (10 - (C4_S(s) % 10)) % 10

(***************************************************************************)
(* C4: a digit string of length 8 to 13 is accepted by IANCodeField iff    *)
(* its last digit is (10 - (S mod 10)) mod 10; a non-empty value of at     *)
(* most 7 characters is accepted, trimmed, without checksum; empty values  *)
(* and values longer than 13 characters raise ValueError.                  *)
(***************************************************************************)
C4_IanChecksum ==
    field = "IANCodeField" =>
        LET t == Strip(value)
        IN  /\ (IsDigit(value) /\ Len(value) \in 8..13) =>
                  IF C4_CheckDigitOk(value) THEN result = Ok(value)
                  ELSE Status(result) = "ValueError"
            /\ Len(t) \in 1..7 => result = Ok(t)
            /\ (t = <<>> \/ Len(t) > 13) => Status(result) = "ValueError"

(***************************************************************************)
(* SWIFT conversions.                                                      *)
(***************************************************************************)
MaxSwiftTail == 6

SwiftInputs ==
    LET banks ==
            {<<"D","E","U","T">>, <<"d","e","u","t">>, <<"D","1","U","T">>,
             <<"D","E","U","1">>, <<"D","E","-","U","T">>, <<"\t","N","E","D","S">>,
             <<"D","E","U">>}
        countries == {<<"D","E">>, <<"g","b">>, <<"X","X">>, <<"D","1">>}
        tailchars == {"F", "5", " "}
    IN  {b \o c \o t : b \in banks, c \in countries,
                       t \in StringsUpTo(tailchars, MaxSwiftTail)}
        \cup {<<>>, <<"1">>, <<"a","b","c","d","e","f","g">>}

SWIFTISOCodeFieldDbValue ==
    /\ Idle
    /\ \E v \in SwiftInputs :
        Call("SWIFTISOCodeField", v, SWIFTISOCodeField_db_value(v))

NextSwift ==
    \/ SWIFTISOCodeFieldDbValue

SpecSwift == Init /\ [][NextSwift]_vars

C5_Accepts(n) ==
    /\ Len(n) \in {8, 11}
    /\ \A i \in 1..4 : n[i] \in ascii_uppercase
    /\ InTable(ISO3166, Lower(SubSeq(n, 5, 6)))

C5_Iff(n) ==
    IF C5_Accepts(n) THEN result = Ok(n) ELSE Status(result) = "ValueError"

(***************************************************************************)
(* C5 as stated: SWIFTISOCodeField.db_value accepts a string iff, after    *)
(* removing spaces and hyphens and uppercasing, its length is 8 or 11, its *)
(* first four characters are A-Z and characters 5-6 are a known country    *)
(* code; it returns the normalized string; every rejection is ValueError.  *)
(***************************************************************************)
C5_AsStated ==
    field = "SWIFTISOCodeField" =>
        C5_Iff(Upper(Remove(Remove(value, " "), "-")))

(***************************************************************************)
(* C5 amended: the same, the normalization being: trim the surrounding     *)
(* whitespace (str.strip), then remove spaces and hyphens, then uppercase. *)
(***************************************************************************)
C5_SwiftAccepts ==
    field = "SWIFTISOCodeField" =>
        C5_Iff(Upper(Remove(Remove(Strip(value), " "), "-")))

\* an 11 character code written in lower case with separators is accepted
C5_Witness ==
    /\ field = "SWIFTISOCodeField"
    /\ Status(result) = "ok"
    /\ Len(Value(result)) = 11
    /\ Len(value) > 11
    /\ value # Upper(value)

(***************************************************************************)
(* SSN conversions.                                                        *)
(***************************************************************************)
SsnInputs ==
    LET areas ==
            [1..3 -> {"0", "2", "6", "9"}]
            \cup {<<"0","7","8">>, <<"2","1","9">>, <<"2","0","5">>, <<"2","0">>,
                  <<"a","b","c">>}
        groups == [1..2 -> {"0", "5", "9"}] \cup {<<"2","1">>, <<"2">>}
        serials ==
            [1..4 -> {"0", "9"}]
            \cup {<<"1","1","2","0">>, <<"9","0","0","0">>, <<"9","0","0">>,
                  <<"9","0","0","0","0">>}
        \* the separators written after the area and after the group
        pairs == {<<"-", "-">>, <<" ", " ">>, <<"", "">>, <<"-", "">>, <<" ", "-">>}
        sep(c) == IF c = "" THEN <<>> ELSE <<c>>
    IN  {a \o sep(p[1]) \o g \o sep(p[2]) \o r :
            a \in areas, g \in groups, r \in serials, p \in pairs}
        \cup {<<>>, <<"1">>,
              <<" ","2","0","5","-","2","1","-","9","0","0","0","\n">>}

USSocialSecurityNumberFieldDbValue ==
    /\ Idle
    /\ \E v \in SsnInputs :
        Call("USSocialSecurityNumberField", v,
             USSocialSecurityNumberField_db_value(v))

USSocialSecurityNumberFieldPythonValue ==
    Load("USSocialSecurityNumberField",
         USSocialSecurityNumberField_python_value(Value(result)))

NextSsn ==
    \/ USSocialSecurityNumberFieldDbValue
    \/ USSocialSecurityNumberFieldPythonValue

SpecSsn == Init /\ [][NextSsn]_vars

\* x is DDD-DD-DDDD
C7_Hyphenated(x) ==
    /\ Len(x) = 11
    /\ x[4] = "-" /\ x[7] = "-"
    /\ \A i \in (1..11) \ {4, 7} : x[i] \in digits

\* x is DDDDDDDDD
C6_Plain(x) == Len(x) = 9 /\ \A i \in 1..9 : x[i] \in digits

\* the nine digits of x, in order
C6_Digits(x) == SelectSeq(x, LAMBDA c : c \in digits)

C7_Area(x) == SubSeq(C6_Digits(x), 1, 3)

C7_Group(x) == SubSeq(C6_Digits(x), 4, 5)

C7_Serial(x) == SubSeq(C6_Digits(x), 6, 9)

C7_AreaZero(x) == C7_Area(x) = <<"0","0","0">>

C7_GroupZero(x) == C7_Group(x) = <<"0","0">>

C7_SerialZero(x) == C7_Serial(x) = <<"0","0","0","0">>

C7_Area666(x) == C7_Area(x) = <<"6","6","6">>

C7_Area9xx(x) == C7_Area(x)[1] = "9"

C7_Promo(x) ==
    C6_Digits(x) \in {<<"0","7","8","0","5","1","1","2","0">>,
                      <<"2","1","9","0","9","9","9","9","9">>}

C7_Invalid(x) ==
    \/ C7_AreaZero(x) \/ C7_GroupZero(x) \/ C7_SerialZero(x)
    \/ C7_Area666(x) \/ C7_Area9xx(x) \/ C7_Promo(x)

\* the five rule classes, in the order the claim lists them
C7_Classes(x) ==
    <<C7_AreaZero(x), C7_GroupZero(x), C7_SerialZero(x), C7_Area666(x),
      C7_Area9xx(x)>>

C7_Reasons ==
    <<"area all zeroes", "group all zeroes", "serial all zeroes", "block 666",
      "block 9**">>

(***************************************************************************)
(* C6: USSocialSecurityNumberField.db_value accepts a structurally valid   *)
(* SSN written AAA-GG-SSSS or AAAGGSSSS and returns AAA-GG-SSSS.           *)
(***************************************************************************)
C6_WithOrWithoutSeparators ==
    (/\ field = "USSocialSecurityNumberField"
     /\ C7_Hyphenated(value) \/ C6_Plain(value)
     /\ ~C7_Invalid(value))
        => result = Ok(SsnCanonical(C7_Area(value), C7_Group(value),
                                    C7_Serial(value)))

(***************************************************************************)
(* C7: an input DDD-DD-DDDD raises ValueError iff the area is 000, 666 or  *)
(* 9xx, the group 00, the serial 0000, or the number is 078-05-1120 or     *)
(* 219-09-9999, and is accepted otherwise; an input that breaks exactly    *)
(* one of the rules area 000, group 00, serial 0000, area 666, area 9xx    *)
(* gets the error reason of that rule, and the five reasons differ.        *)
(***************************************************************************)
C7_SsnRules ==
    (field = "USSocialSecurityNumberField" /\ C7_Hyphenated(value)) =>
        /\ IF C7_Invalid(value) THEN Status(result) = "ValueError"
           ELSE Status(result) = "ok"
        /\ \A k \in 1..5 :
              (C7_Classes(value)[k]
               /\ \A j \in (1..5) \ {k} : ~C7_Classes(value)[j])
                  => Reason(result) = C7_Reasons[k]
        /\ Cardinality(Range(C7_Reasons)) = 5

C7_Witness ==
    /\ field = "USSocialSecurityNumberField"
    /\ value = <<"6","6","6","-","5","9","-","9","0","0","0">>
    /\ Reason(result) = "block 666"

\* the integer a digit string writes
RECURSIVE C8_Num(_)
C8_Num(s) ==
    IF s = <<>> THEN 0
    ELSE C8_Num(SubSeq(s, 1, Len(s) - 1)) * 10 + DigitVal(s[Len(s)])

(***************************************************************************)
(* C8: for every accepted x with c = db_value(x): python_value(c).ssn = c, *)
(* db_value(c) = c, and area, group and serial of python_value(c) are the  *)
(* integers written by the three digit groups of x.                        *)
(***************************************************************************)
C8_SsnRoundTrip ==
    (field = "USSocialSecurityNumberField" /\ Status(result) = "ok") =>
        LET c == Value(result)
            d == Value(decoded)
        IN  /\ USSocialSecurityNumberField_db_value(c) = Ok(c)
            /\ Status(decoded) \in {"none", "ok"}
            /\ Status(decoded) = "ok" =>
                /\ d[1] = c
                /\ d[2] = C8_Num(C7_Area(value))
                /\ d[3] = C8_Num(C7_Group(value))
                /\ d[4] = C8_Num(C7_Serial(value))

C8_Witness ==
    /\ field = "USSocialSecurityNumberField"
    /\ value = <<"2","0","5"," ","2","1"," ","9","0","0","0">>
    /\ Status(decoded) = "ok"
    /\ Value(decoded) =
          <<<<"2","0","5","-","2","1","-","9","0","0","0">>, 205, 21, 9000>>

(***************************************************************************)
(* ISO code conversions.                                                   *)
(***************************************************************************)
MaxCodeLen == 4

CodeInputs ==
    StringsUpTo({"a", "r", "s", "A", "e", "n", " "}, MaxCodeLen)
        \cup {<<"\t","e","S","\n">>}

LanguageISOCodeFieldDbValue ==
    /\ Idle
    /\ \E v \in CodeInputs :
        Call("LanguageISOCodeField", v, LanguageISOCodeField_db_value(v))

CountryISOCodeFieldDbValue ==
    /\ Idle
    /\ \E v \in CodeInputs :
        Call("CountryISOCodeField", v, CountryISOCodeField_db_value(v))

CurrencyISOCodeFieldDbValue ==
    /\ Idle
    /\ \E v \in CodeInputs :
        Call("CurrencyISOCodeField", v, CurrencyISOCodeField_db_value(v))

CountryISOCodeFieldPythonValue ==
    Load("CountryISOCodeField", CountryISOCodeField_python_value(Value(result)))

NextIso ==
    \/ LanguageISOCodeFieldDbValue
    \/ CountryISOCodeFieldDbValue
    \/ CurrencyISOCodeFieldDbValue
    \/ CountryISOCodeFieldPythonValue

SpecIso == Init /\ [][NextIso]_vars

IsoKinds == {"LanguageISOCodeField", "CountryISOCodeField",
             "CurrencyISOCodeField"}

C9_Width(kind) == IF kind = "CurrencyISOCodeField" THEN 3 ELSE 2

C9_Table(kind) ==
    CASE kind = "LanguageISOCodeField" -> ISO639_1
      [] kind = "CountryISOCodeField" -> ISO3166
      [] kind = "CurrencyISOCodeField" -> ISO4217

C9_Canonical(kind, t) ==
    IF kind = "LanguageISOCodeField" THEN t
    ELSE PyIntValue(Row(C9_Table(kind), t)[3])

C9_Malformed == {"not 2 characters long", "not 3 characters long"}

C9_Unknown ==
    {"not an ISO-639_1 code", "not an ISO-3166 code", "not an ISO-4217 code"}

(***************************************************************************)
(* C9: for every string s given to the db_value of the language, country   *)
(* or currency field, with t = s lowercased and trimmed: a t of the wrong  *)
(* width raises the malformed-length ValueError, else a t missing from the *)
(* table raises the unknown-code ValueError, else the canonical value is   *)
(* returned; no string, the empty one included, is returned unchecked.     *)
(***************************************************************************)
C9_NoSilentCoercion ==
    field \in IsoKinds =>
        LET t == Strip(Lower(value))
        IN  IF Len(t) # C9_Width(field)
            THEN Status(result) = "ValueError" /\ Reason(result) \in C9_Malformed
            ELSE IF ~InTable(C9_Table(field), t)
            THEN Status(result) = "ValueError" /\ Reason(result) \in C9_Unknown
            ELSE result = Ok(C9_Canonical(field, t))

\* the reverse table inverts the numeric codes of the reference table
C10_ReverseIsBijection ==
    \A i \in 1..Len(ISO3166) :
        /\ InTable(INT2COUNTRY, IntToStr(ISO3166[i][3]))
        /\ Row(INT2COUNTRY, IntToStr(ISO3166[i][3]))[2] = ISO3166[i][1]

(***************************************************************************)
(* C10: with a reverse table that inverts the reference table, for every   *)
(* known 2-character country code c, in any letter case and with           *)
(* surrounding whitespace, python_value(db_value(c)) succeeds and is the   *)
(* record of the entry of lowercase(c): its iso3166_numeric is the entry's *)
(* numeric code, and the reverse lookup gives back lowercase(c).           *)
(***************************************************************************)
C10_CountryRoundTrip ==
    (/\ C10_ReverseIsBijection
     /\ field = "CountryISOCodeField"
     /\ InTable(ISO3166, Lower(Strip(value)))) =>
        LET c == Lower(Strip(value))
            entry == Row(ISO3166, c)
        IN  /\ result = Ok(PyIntValue(entry[3]))
            /\ Status(decoded) \in {"none", "ok"}
            /\ Status(decoded) = "ok" =>
                /\ Value(decoded) = <<Upper(entry[2]), entry[3], Title(entry[4])>>
                /\ Row(INT2COUNTRY, IntToStr(Value(result)[2]))[2] = c

C10_Witness ==
    /\ field = "CountryISOCodeField"
    /\ value = <<" ", "A", "r", " ">>
    /\ Status(decoded) = "ok"
    /\ Value(decoded) = <<<<"A","R","G">>, 32,
                          <<"A","r","g","e","n","t","i","n","a">>>>

(***************************************************************************)
(* Stored integers read back by the country and the currency field.        *)
(***************************************************************************)
MaxStoredInt == 900

\* python_value on a value v found in the column, not written by a db_value
\* of this run
Read(kind, v, d) ==
    /\ field' = kind
    /\ value' = <<>>
    /\ result' = <<"stored", "", v>>
    /\ decoded' = d
    /\ UNCHANGED <<descriptor, threads>>

CountryISOCodeFieldPythonValueStored ==
    /\ Idle
    /\ \E n \in -2..MaxStoredInt :
        Read("CountryISOCodeField", PyIntValue(n),
             CountryISOCodeField_python_value(PyIntValue(n)))

CurrencyISOCodeFieldPythonValueStored ==
    /\ Idle
    /\ \E n \in -2..MaxStoredInt :
        Read("CurrencyISOCodeField", PyIntValue(n),
             CurrencyISOCodeField_python_value(PyIntValue(n)))

NextIsoStored ==
    \/ CountryISOCodeFieldPythonValueStored
    \/ CurrencyISOCodeFieldPythonValueStored

SpecIsoStored == Init /\ [][NextIsoStored]_vars

C11_ReverseTable(kind) ==
    IF kind = "CountryISOCodeField" THEN INT2COUNTRY ELSE INT2CURRENCY

C11_HasEntry(kind, n) ==
    \E row \in Range(C11_ReverseTable(kind)) : row[1] = IntToStr(n)

(***************************************************************************)
(* C11: for every integer v without an entry in the reverse table, the     *)
(* python_value of the country and of the currency field fails by raising  *)
(* an error; it never returns v itself, a default or a partial record.     *)
(***************************************************************************)
C11_MissingEntryFails ==
    (/\ field \in {"CountryISOCodeField", "CurrencyISOCodeField"}
     /\ Status(result) = "stored"
     /\ ~C11_HasEntry(field, Value(result)[2])) =>
        Status(decoded) \in {"KeyError", "AttributeError"}

(***************************************************************************)
(* ColorHexadecimalField: inputs and actions.                              *)
(***************************************************************************)
MaxColorBody == 3

ColorInputs ==
    LET chars == {"0", "2", "a", "F", "g", "x", "+", "_", " ", "-"}
        halves == {<<"0","2","0">>, <<"0","0","0">>, <<"a","a","b">>,
                   <<"b","c","c">>, <<"0","x","1">>, <<"2","3","4">>,
                   <<"F","0","e">>}
    IN  {<<"#">> \o b : b \in StringsUpTo(chars, MaxColorBody)}
            \cup {<<"#">> \o x \o y : x \in halves, y \in halves}
            \cup {<<>>, <<"0","a","b","c">>, <<"0","a","a","b","b","c","c">>,
                  <<" ","#","a","b","c","\n">>, <<"#","a","-","b","-","c">>,
                  <<"#","-","1","f","0","f","0">>}

ColorHexadecimalFieldDbValue ==
    /\ Idle
    /\ \E v \in ColorInputs :
        Call("ColorHexadecimalField", v, ColorHexadecimalField_db_value(v))

ColorHexadecimalFieldPythonValue ==
    Load("ColorHexadecimalField",
         ColorHexadecimalField_python_value(Value(result)))

NextColor ==
    \/ ColorHexadecimalFieldDbValue
    \/ ColorHexadecimalFieldPythonValue

SpecColor == Init /\ [][NextColor]_vars

\* x is '#' followed by n characters out of 0-9a-f
C12_HashHex(x, n) ==
    /\ Len(x) = n + 1
    /\ x[1] = "#"
    /\ \A i \in 2..(n + 1) : x[i] \in Range(HexSeq)

C12_Doubled(x) == <<"#", x[2], x[2], x[3], x[3], x[4], x[4]>>

(***************************************************************************)
(* C12: for all hex digits a, b, c the db_value of "#abc" is "#aabbcc";    *)
(* db_value is idempotent, db_value(db_value(x)) = db_value(x) for every   *)
(* accepted x; and python_value gives for the db_value of "#abc" the same  *)
(* record, field by field, as for the db_value of "#aabbcc".               *)
(***************************************************************************)
C12_ShortFormExpands ==
    field = "ColorHexadecimalField" =>
        /\ C12_HashHex(value, 3) =>
            /\ result = Ok(C12_Doubled(value))
            /\ Status(decoded) # "none" =>
                decoded = ColorHexadecimalField_python_value(
                    Value(ColorHexadecimalField_db_value(C12_Doubled(value))))
        /\ Status(result) = "ok" =>
            ColorHexadecimalField_db_value(Value(result)) = result

(***************************************************************************)
(* C13: for every string the db_value of ColorHexadecimalField accepts,    *)
(* the canonical value is '#' followed by six characters out of 0-9a-f and *)
(* python_value succeeds on it; every other string raises ValueError.      *)
(***************************************************************************)
C13_CanonicalDecodes ==
    field = "ColorHexadecimalField" =>
        IF Status(result) = "ok"
        THEN /\ C12_HashHex(Value(result), 6)
             /\ Status(decoded) \in {"none", "ok"}
        ELSE Status(result) = "ValueError"

(***************************************************************************)
(* SemVerField, USZipCodeField: inputs and actions.                        *)
(***************************************************************************)
MaxSemVerTail == 3

SemVerInputs ==
    LET heads ==
            {<<"1",".","2",".","3">>, <<"0",".","0",".","0">>, <<"0","1",".","2",".","3">>,
             <<"v","1",".","2",".","3">>, <<"1",".","2">>, <<"1",".","1","0",".","0","4">>}
        tailchars == {"-", "+", ".", "a", "4", "A", "_", " ", "!"}
        shortchars == {"0", "1", ".", "v"}
    IN  {h \o t : h \in heads, t \in StringsUpTo(tailchars, MaxSemVerTail)}
            \cup UNION {[1..k -> shortchars] : k \in 0..4}
            \cup {<<"1",".","2",".","3","-","a","l","p","h","a",".","1","0",".","b","e","t","a",".","0","+","b","u","i","l","d",".","u","n","i","c","o","r","n",".","r","a","i","n","b","o","w">>,
                  <<" "," ","1",".","2",".","3","\n">>,
                  <<"1",".","2",".","3","-","a",".","b","+","c",".","d","-">>,
                  <<"1",".","2",".","3">> \o Zeros(BaseRegexField_max_length - 4),
                  <<"!">> \o Zeros(BaseRegexField_max_length)}

SemVerFieldDbValue ==
    /\ Idle
    /\ \E v \in SemVerInputs : Call("SemVerField", v, SemVerField_db_value(v))

MaxZipTail == 6

ZipInputs ==
    LET heads == {<<"2","0","5","2","1">>, <<"2","0","5","2">>, <<"2","0","5","2","a">>}
        tailchars == {"-", "9", "a", " "}
    IN  {h \o t : h \in heads, t \in StringsUpTo(tailchars, MaxZipTail)}
            \cup {<<>>, <<"\t","2","0","5","2","1","-","9","0","0","0"," ">>}

USZipCodeFieldDbValue ==
    /\ Idle
    /\ \E v \in ZipInputs : Call("USZipCodeField", v, USZipCodeField_db_value(v))

MaxDigitRun == 12

HROIBFieldDbValue ==
    /\ Idle
    /\ \E v \in StringsUpTo({"1", "a"}, MaxDigitRun) :
        Call("HROIBField", v,
             BaseRegexField_db_value(<<HROIBField_min_length, HROIBField_max_length,
                                       "HROIBField">>, v))

ILZipCodeFieldDbValue ==
    /\ Idle
    /\ \E v \in StringsUpTo({"1", "a"}, MaxDigitRun) :
        Call("ILZipCodeField", v,
             BaseRegexField_db_value(<<ILZipCodeField_min_length,
                                       ILZipCodeField_max_length,
                                       "ILZipCodeField">>, v))

ROCIFFieldDbValue ==
    /\ Idle
    /\ \E p \in {<<>>, <<"R", "O">>}, d \in StringsUpTo({"1", "a"}, MaxDigitRun) :
        Call("ROCIFField", p \o d,
             BaseRegexField_db_value(<<ROCIFField_min_length, ROCIFField_max_length,
                                       "ROCIFField">>, p \o d))

NextRegex ==
    \/ SemVerFieldDbValue
    \/ USZipCodeFieldDbValue
    \/ HROIBFieldDbValue
    \/ ILZipCodeFieldDbValue
    \/ ROCIFFieldDbValue

SpecRegex == Init /\ [][NextRegex]_vars

(***************************************************************************)
(* C14: the db_value of SemVerField accepts a string if and only if the    *)
(* whole trimmed string conforms to the SemVer grammar (optional v,        *)
(* MAJOR.MINOR.PATCH without leading zeros, optional -prerelease, optional *)
(* +build); every string shorter than 5 characters is rejected; accepted   *)
(* values are returned unchanged apart from trimming.                      *)
(***************************************************************************)
C14_WholeStringConforms ==
    field = "SemVerField" =>
        /\ Status(result) = "ok" <=> SemVerPattern(Strip(value))
        /\ Len(value) < 5 => Status(result) = "ValueError"
        /\ Status(result) = "ok" => Value(result) = Strip(value)

C15_Kinds == {"SemVerField", "USZipCodeField"}

C15_Min(kind) ==
    IF kind = "SemVerField" THEN BaseRegexField_min_length
    ELSE USZipCodeField_min_length

C15_Max(kind) ==
    IF kind = "SemVerField" THEN BaseRegexField_max_length
    ELSE USZipCodeField_max_length

C15_Matches(kind, t) ==
    IF kind = "SemVerField" THEN SemVerField_regex(t) ELSE USZipCodeField_regex(t)

C15_TooLong == Raise("ValueError", "too long")

C15_TooShort == Raise("ValueError", "too short")

C15_Mismatch == Raise("ValueError", "not valid")

(***************************************************************************)
(* C15: for a field derived from _BaseRegexField and every string input,   *)
(* db_value trims the value and checks in this order: longer than          *)
(* max_length raises the too-long error, else shorter than min_length the  *)
(* too-short error, else a failed regex match the pattern-mismatch error,  *)
(* else the trimmed value is returned; the three errors are distinct, and  *)
(* a value both too long and mismatching is reported as too long.          *)
(***************************************************************************)
C15_RegexFieldOrder ==
    field \in C15_Kinds =>
        LET t == Strip(value)
        IN  /\ Cardinality({C15_TooLong, C15_TooShort, C15_Mismatch}) = 3
            /\ Len(t) > C15_Max(field) => result = C15_TooLong
            /\ Len(t) <= C15_Max(field) /\ Len(t) < C15_Min(field) =>
                result = C15_TooShort
            /\ (/\ Len(t) <= C15_Max(field)
                /\ Len(t) >= C15_Min(field)
                /\ ~C15_Matches(field, t)) => result = C15_Mismatch
            /\ (/\ Len(t) <= C15_Max(field)
                /\ Len(t) >= C15_Min(field)
                /\ C15_Matches(field, t)) => result = Ok(t)

\* a value that is too long and does not match is reported as too long
C15_Witness ==
    /\ field = "USZipCodeField"
    /\ value = <<"2","0","5","2","1","-","9","a","a","a","a">>
    /\ ~USZipCodeField_regex(Strip(value))
    /\ result = C15_TooLong

(***************************************************************************)
(* PastDateTimeField, PastDateField: inputs and actions.                   *)
(***************************************************************************)
MaxDay == 2

MaxTick == 1

Moments == (0..MaxDay) \X (0..MaxTick)

DateInputs ==
    {<<"date", d>> : d \in 0..MaxDay}
        \cup {<<"datetime", t[1], t[2]>> : t \in Moments}
        \cup {<<"str", DateTimeField_formats[i], t[1], t[2]>> :
                i \in 1..2, t \in Moments}
        \cup {<<"str", DateTimeField_formats[3], d, 0>> : d \in 0..MaxDay}
        \cup {<<"str", "not a date", 0, 0>>, <<"str", "", 0, 0>>}

\* the call record <<value, now>> keeps the argument and the clock reading
PastDateTimeFieldDbValue ==
    /\ Idle
    /\ \E v \in DateInputs : \E now \in Moments :
        Call("PastDateTimeField", <<v, now>>, PastDateTimeField_db_value(v, now))

PastDateFieldDbValue ==
    /\ Idle
    /\ \E v \in DateInputs : \E now \in Moments :
        Call("PastDateField", <<v, now>>, PastDateField_db_value(v, now))

NextPastDate ==
    \/ PastDateTimeFieldDbValue
    \/ PastDateFieldDbValue

SpecPastDate == Init /\ [][NextPastDate]_vars

C16_Arg == value[1]

C16_Clock == value[2]

C16_Kinds == {"PastDateTimeField", "PastDateField"}

C16_Formats == Range(DateTimeField_formats)

\* v denotes a moment: an object, or a text in an accepted format
C16_Denotes(v) == v[1] \in {"date", "datetime"} \/ (v[1] = "str" /\ v[2] \in C16_Formats)

C16_Day(v) == IF v[1] = "str" THEN v[3] ELSE v[2]

C16_Tick(v) == IF v[1] = "str" THEN v[4] ELSE IF v[1] = "datetime" THEN v[3] ELSE 0

\* strictly after now: by the day for the date field and for a date object,
\* by day and time of day otherwise
C16_After(kind, v, now) ==
    \/ C16_Day(v) > now[1]
    \/ /\ kind = "PastDateTimeField"
       /\ v[1] # "date"
       /\ C16_Day(v) = now[1]
       /\ C16_Tick(v) > now[2]

(***************************************************************************)
(* C16: the db_value of PastDateField and of PastDateTimeField, given a    *)
(* date or datetime object or a text in an accepted format that denotes    *)
(* the moment t, raises ValueError if t is strictly after the current      *)
(* moment and returns the value unchanged if t is at or before it.         *)
(***************************************************************************)
C16_FutureRejected ==
    (field \in C16_Kinds /\ C16_Denotes(C16_Arg)) =>
        IF C16_After(field, C16_Arg, C16_Clock)
        THEN Status(result) = "ValueError"
        ELSE result = Ok(C16_Arg)

(***************************************************************************)
(* C17: for a non-empty text given to the db_value of PastDateField or     *)
(* PastDateTimeField, the value parsed by the first matching format of the *)
(* field is the one compared with the current moment; a text that matches  *)
(* none of the formats raises ValueError: it is not accepted and it does   *)
(* not fail with another kind of error.                                    *)
(***************************************************************************)
C17_UnmatchedTextRejected ==
    (/\ field \in C16_Kinds
     /\ C16_Arg[1] = "str"
     /\ C16_Arg[2] # "") =>
        IF C16_Arg[2] \notin C16_Formats THEN Status(result) = "ValueError"
        ELSE IF C16_After(field, C16_Arg, C16_Clock)
        THEN Status(result) = "ValueError"
        ELSE result = Ok(C16_Arg)

(***************************************************************************)
(* CharFieldCustom: descriptors, inputs and actions.                       *)
(***************************************************************************)
MaxCustomLen == 3

\* the descriptors <<min_lenght, use_lower, blacklist, whitelist,
\* force_ascii, force_slugify>> a CharFieldCustom(...) call can leave
CharFieldCustomDescriptors ==
    {0, 2} \X BOOLEAN
        \X {{}, {<<"a","b">>}, {<<"a","B">>}}
        \X {{}, {<<"a","b">>, <<"b","U+00E9"," ">>}, {<<"a","B">>}}
        \X {None, <<>>, <<"?">>} \X BOOLEAN

CharFieldCustomInputs ==
    StringsUpTo({"a", "B", "U+00E9", " ", "_"}, MaxCustomLen)

\* the call record <<self, value>> keeps the descriptor and the argument
CharFieldCustomDbValue ==
    /\ Idle
    /\ \E self \in CharFieldCustomDescriptors : \E v \in CharFieldCustomInputs :
        Call("CharFieldCustom", <<self, v>>, CharFieldCustom_db_value(self, v))

NextCustom == CharFieldCustomDbValue

SpecCustom == Init /\ [][NextCustom]_vars

RECURSIVE C18_Concat(_)
C18_Concat(pieces) ==
    IF pieces = <<>> THEN <<>> ELSE Head(pieces) \o C18_Concat(Tail(pieces))

\* s with every maximal run of characters outside keep replaced by repl
C18_Sub(keep, repl, s) ==
    LET starts == SelectSeq([i \in 1..Len(s) |-> i],
                            LAMBDA i : s[i] \in keep \/ i = 1 \/ s[i - 1] \in keep)
    IN  C18_Concat([k \in 1..Len(starts) |->
                      IF s[starts[k]] \in keep THEN <<s[starts[k]]>> ELSE repl])

C18_Ascii ==
    ascii_lowercase \cup ascii_uppercase \cup digits \cup {" ", "_", "-", "?"}

C18_AsciiFold(self, s) ==
    IF self[5] = None THEN s ELSE C18_Sub(C18_Ascii, self[5], s)

C20_SlugChars == ascii_lowercase \cup digits \cup {"_", "-"}

C18_Slugify(self, s) ==
    IF self[6] THEN C18_Sub(C20_SlugChars \cup ascii_uppercase, <<"-">>, s) ELSE s

C18_Self == value[1]

C18_Lowered == IF C18_Self[2] THEN Lower(value[2]) ELSE value[2]

(***************************************************************************)
(* C18: the db_value of CharFieldCustom lowercases (if use_lower), then    *)
(* checks the minimum length, the blacklist and the whitelist on the       *)
(* lowercased value, in this order, then folds to ASCII (if force_ascii is *)
(* set), then slugifies (if force_slugify); a failing check raises         *)
(* ValueError and nothing later runs, and an accepted non-empty value      *)
(* gives slugify(asciifold(lowercase(value))) of the enabled steps.        *)
(***************************************************************************)
C18_FixedOrder ==
    (field = "CharFieldCustom" /\ value[2] # <<>>) =>
        IF C18_Self[1] # 0 /\ Len(C18_Lowered) < C18_Self[1]
        THEN result = Raise("ValueError", "too short")
        ELSE IF C18_Self[3] # {} /\ Lower(C18_Lowered) \in C18_Self[3]
        THEN result = Raise("ValueError", "black-listed")
        ELSE IF C18_Self[4] # {} /\ Lower(C18_Lowered) \notin C18_Self[4]
        THEN result = Raise("ValueError", "not white-listed")
        ELSE result = Ok(C18_Slugify(C18_Self, C18_AsciiFold(C18_Self, C18_Lowered)))

\* every step is enabled and the value passes the three checks
C18_Witness ==
    /\ field = "CharFieldCustom"
    /\ value = <<<<2, TRUE, {<<"a","b">>}, {<<"a","b">>, <<"b","U+00E9"," ">>},
                   <<"?">>, TRUE>>, <<"B","U+00E9"," ">>>>
    /\ result = Ok(<<"b","-">>)

(***************************************************************************)
(* C19: blacklist and whitelist membership of CharFieldCustom ignores the  *)
(* letter case: with a blacklist B, db_value of a non-empty v raises       *)
(* ValueError if and only if some entry of B equals v ignoring case; with  *)
(* a whitelist W, if and only if no entry of W equals v ignoring case.     *)
(***************************************************************************)
C19_ListsIgnoreCase ==
    (field = "CharFieldCustom" /\ value[2] # <<>> /\ C18_Self[1] = 0) =>
        /\ (C18_Self[3] # {} /\ C18_Self[4] = {}) =>
            (Status(result) = "ValueError"
                <=> \E e \in C18_Self[3] : Lower(e) = Lower(value[2]))
        /\ (C18_Self[4] # {} /\ C18_Self[3] = {}) =>
            (Status(result) = "ValueError"
                <=> ~\E e \in C18_Self[4] : Lower(e) = Lower(value[2]))

\* the value that reaches the slugify step
C20_Folded == C18_AsciiFold(C18_Self, C18_Lowered)

C24_RejectsWithValueError ==
    (field = "IBANISOCodeField" /\ Status(result) \notin {"ok", "none"}) =>
        Status(result) = "ValueError"

(***************************************************************************)
(* C26: the db_value of IANCodeField rejects with ValueError every string  *)
(* of 8 to 13 characters (after trimming) that has a character which is    *)
(* not a decimal digit: the exception object that get_ian_checksum returns *)
(* never equals the last character.                                        *)
(***************************************************************************)
C26_NonDigitsRejected ==
    LET t == Strip(value)
    IN  (/\ field = "IANCodeField"
         /\ Len(t) \in 8..13
         /\ \E i \in 1..Len(t) : t[i] \notin digits) =>
            Status(result) = "ValueError"

\* the letter is in the part the checksum is computed from, so that
\* get_ian_checksum returns the exception object
C26_Witness ==
    /\ field = "IANCodeField"
    /\ value = <<"5","9","0","1","2","3","4","a","1">>
    /\ get_ian_checksum(value) = <<"exception", "ValueError">>
    /\ result = Raise("ValueError", "checksum")

(***************************************************************************)
(* C27: every value accepted by the db_value of IBANISOCodeField has a     *)
(* non-empty basic bank account number: its normalized length is at least  *)
(* 5, no 4-character string of a known country code and two check digits   *)
(* is accepted.                                                            *)
(***************************************************************************)
C27_BbanNotEmpty ==
    (field = "IBANISOCodeField" /\ Status(result) = "ok") =>
        Len(IbanNormalize(value)) >= 5

(***************************************************************************)
(* C28: with min_lenght = m, every non-empty value that the db_value of    *)
(* CharFieldCustom returns has at least m characters, whatever the other   *)
(* options are.                                                            *)
(***************************************************************************)
C28_ReturnedLength ==
    (/\ field = "CharFieldCustom"
     /\ Status(result) = "ok"
     /\ Value(result) # <<>>
     /\ value[1][1] # 0) =>
        Len(Value(result)) >= value[1][1]

(***************************************************************************)
(* CSV conversions.                                                        *)
(***************************************************************************)
MaxCsvLen == 4

\* the call record is <<self, value>>
CSVFieldDbValue ==
    /\ Idle
    /\ \E self \in {<<",">>, <<";">>, <<",", ",">>, <<>>} \X BOOLEAN \X BOOLEAN,
          v \in StringsUpTo({"a", "b", ","}, MaxCsvLen)
                \cup {<<"b", ",", "a", ",", "a", ",", "c">>} :
        \E r \in CSVField_db_value(self, v) : Call("CSVField", <<self, v>>, r)

CSVFieldPythonValue ==
    /\ field = "CSVField"
    /\ Load("CSVField", CSVField_python_value(value[1], Value(result)))

NextCsv ==
    \/ CSVFieldDbValue
    \/ CSVFieldPythonValue

SpecCsv == Init /\ [][NextCsv]_vars

(***************************************************************************)
(* C21: for CSVField with use_set and a non-empty input s, the decoded     *)
(* tokens python_value(db_value(s)) have no token twice and, as a set, are *)
(* the tokens of s split on the separator; with use_sorted they are also   *)
(* in ascending order.                                                     *)
(***************************************************************************)
C21_Ord(c) == IndexOf(<<",", "a", "b", "c">>, c)

\* x comes before y: x is a proper prefix of y, or is smaller at the first
\* place where they differ
C21_Less(x, y) ==
    \E k \in 1..Len(y) :
        /\ Len(x) >= k - 1
        /\ \A j \in 1..(k - 1) : x[j] = y[j]
        /\ (Len(x) = k - 1 \/ C21_Ord(x[k]) < C21_Ord(y[k]))

C21_Self == value[1]

C21_SetOfTokens ==
    (/\ field = "CSVField"
     /\ value[2] # <<>>
     /\ C21_Self[2]
     /\ Status(decoded) # "none") =>
        /\ Status(decoded) = "ok"
        /\ \A i, j \in 1..Len(Value(decoded)) :
              Value(decoded)[i] = Value(decoded)[j] => i = j
        /\ Range(Value(decoded)) = Range(split(value[2], C21_Self[1]))
        /\ C21_Self[3] =>
              \A i \in 1..(Len(Value(decoded)) - 1) :
                  C21_Less(Value(decoded)[i], Value(decoded)[i + 1])

(***************************************************************************)
(* Positive float and decimal fields: a field is constructed with a        *)
(* round_by argument, then converts a value.  result holds the outcome of  *)
(* the construction (the descriptor), decoded the outcome of db_value.     *)
(***************************************************************************)
MaxRoundBy == 2

MaxEighths == 20

\* a field of class kind is constructed
Construct(kind, round_by, r) ==
    /\ field' = kind
    /\ value' = <<round_by>>
    /\ result' = r
    /\ decoded' = NotCalled
    /\ UNCHANGED <<descriptor, threads>>

\* db_value on the constructed field; the call record becomes <<round_by, v>>
Convert(kind, v, r) ==
    /\ field = kind
    /\ Status(result) = "ok"
    /\ Status(decoded) = "none"
    /\ value' = value \o <<v>>
    /\ decoded' = r
    /\ UNCHANGED <<field, result, descriptor, threads>>

PositiveFloatFieldInit ==
    /\ Idle
    /\ \E round_by \in {None, <<"float", 2500>>, <<"float", 2000>>, <<"str", <<"2">>>>}
                       \cup {<<"int", n>> : n \in -1..MaxRoundBy} :
        Construct("PositiveFloatField", round_by, PositiveFloatField_init(round_by))

\* values that a float holds exactly: multiples of 1/8
PositiveFloatFieldDbValue ==
    /\ field = "PositiveFloatField"
    /\ \E v \in {None} \cup {<<"float", 125 * n>> : n \in -2..MaxEighths} :
        Convert("PositiveFloatField", v, PositiveFloatField_db_value(Value(result), v))

PositiveDecimalFieldInit ==
    /\ Idle
    /\ \E round_by \in {None, <<"float", 2500>>, <<"float", 2000>>, <<"str", <<"2">>>>}
                       \cup {<<"int", n>> : n \in -1..MaxRoundBy} :
        Construct("PositiveDecimalField", round_by,
                  PositiveDecimalField_init(round_by))

PositiveDecimalFieldDbValue ==
    /\ field = "PositiveDecimalField"
    /\ \E v \in {None} \cup {<<"Decimal", 125 * n>> : n \in -2..MaxEighths} :
        Convert("PositiveDecimalField", v,
                PositiveDecimalField_db_value(Value(result), v))

NextPositive ==
    \/ PositiveFloatFieldInit
    \/ PositiveFloatFieldDbValue
    \/ PositiveDecimalFieldInit
    \/ PositiveDecimalFieldDbValue

SpecPositive == Init /\ [][NextPositive]_vars

C22_Kinds == {"PositiveFloatField", "PositiveDecimalField"}

\* the round_by argument is given and is a positive integer
C22_Valid(round_by) == round_by[1] = "int" /\ round_by[2] > 0

\* n thousandths has at most k decimal places and is within half a unit of
\* the last place of m
C22_RoundedTo(n, m, k) ==
    LET q == IF k = 1 THEN 100 ELSE IF k = 2 THEN 10 ELSE 1
    IN  n % q = 0 /\ 2 * (n - m) <= q /\ 2 * (m - n) <= q

(***************************************************************************)
(* C22: the construction of a PositiveFloatField or PositiveDecimalField   *)
(* with a round_by that is given but is not a positive integer (zero, a    *)
(* negative integer, a value that is not an integer) fails with            *)
(* ValueError; so no db_value skips the rounding because of an invalid     *)
(* round_by, and a constructed field with round_by given rounds to exactly *)
(* that many decimal places.                                               *)
(***************************************************************************)
C22_RoundByValidated ==
    field \in C22_Kinds =>
        /\ (value[1] # None /\ ~C22_Valid(value[1])) =>
              Status(result) = "ValueError"
        /\ (/\ value[1] # None
            /\ Status(decoded) = "ok"
            /\ value[2] # None
            /\ value[2][2] # 0) =>
              /\ C22_Valid(value[1])
              /\ C22_RoundedTo(Value(decoded)[2], value[2][2], value[1][2])

(***************************************************************************)
(* IP address conversions.                                                 *)
(***************************************************************************)
MaxIpGroups == 2

IPAddressFieldDbValue ==
    /\ Idle
    /\ LET RECURSIVE joined(_, _)
           joined(l, sep) ==
               IF l = <<>> THEN <<>>
               ELSE IF Len(l) = 1 THEN l[1]
               ELSE l[1] \o sep \o joined(Tail(l), sep)
           octets == {<<"0">>, <<"1">>, <<"2","5","5">>, <<"2","5","6">>, <<"0","1">>}
           groups == {<<"0">>, <<"1">>, <<"f","f","f","f">>, <<"g">>}
           sides == UNION {[1..k -> groups] : k \in 0..MaxIpGroups}
           dotted == {joined(l, <<".">>) : l \in [1..3 -> octets] \cup [1..4 -> octets]}
           colons == {joined(l, <<":">>) \o <<":", ":">> \o joined(r, <<":">>) :
                          l \in sides, r \in sides}
                     \cup {joined(l, <<":">>) : l \in [1..8 -> {<<"0">>, <<"1">>}]}
       IN  \E v \in dotted \cup colons
                    \cup {<<>>, <<"1">>, <<":", "1">>, <<"-", "8", ".", "8", ".", "8", ".", "8">>,
                          <<":", ":", "f", "f", "f", "f", ":", "1", ".", "0", ".", "0", ".", "1">>,
                          <<":", ":", "1", ".", "2", "5", "6", ".", "0", ".", "1">>,
                          <<"1", ":", ":", "1", ":", ":", "1">>, <<"1", ":", "1">>,
                          <<":", "1", ":", ":", "1">>, <<"1", ":", ":", "1", ":">>} :
               Call("IPAddressField", v, IPAddressField_db_value(v))

IPAddressFieldPythonValue ==
    /\ field = "IPAddressField"
    /\ Status(result) = "ok"
    /\ result # Ok(<<>>)
    /\ Load("IPAddressField", IPAddressField_python_value(Value(result)))

NextIp ==
    \/ IPAddressFieldDbValue
    \/ IPAddressFieldPythonValue

SpecIp == Init /\ [][NextIp]_vars

(***************************************************************************)
(* C23: for every valid IPv4 or IPv6 address a, given as text, the         *)
(* db_value of IPAddressField is an integer and python_value(db_value(a))  *)
(* is the same address, with the IP version and the numeric value of       *)
(* ip_address(a); every text that is not a valid address is rejected by    *)
(* db_value with ValueError (the empty text, which stands for no value,    *)
(* left aside).                                                            *)
(***************************************************************************)
C23_RoundTrip ==
    (field = "IPAddressField" /\ value # <<>>) =>
        IF Status(ip_address(value)) = "ok"
        THEN /\ Status(result) = "ok"
             /\ Value(result)[1] = "int"
             /\ Status(decoded) # "none" => decoded = ip_address(value)
        ELSE Status(result) = "ValueError"

(***************************************************************************)
(* JSON conversions.                                                       *)
(***************************************************************************)
MaxJsonLen == 4

\* the call record is <<self, value>>
JSONFieldDbValue ==
    /\ Idle
    /\ LET one == <<"int", 1>>
           a == <<"str", <<"a">>>>
           texts == StringsUpTo({"[", "]", "{", "}", "1", "\"", ",", " "}, MaxJsonLen)
                    \cup {<<"{", "\"", "a", "\"", ":", " ", "1", "}">>,
                          <<"{", "\"", "a", "\"", ":", "1", ",", "\"", "a", "\"", ":",
                            "[", "]", "}">>,
                          <<"{", "\"", "a", "\"", "}">>, <<"0", "1">>, <<"0">>,
                          <<"\"", "\\", "u", "0", "0", "e", "9", "\"">>,
                          <<"\"", "\\", "n", "o", "\"">>, <<"\"", "U+00E9", "\"">>}
           containers ==
               {<<"list", <<>>>>, <<"dict", <<>>>>, <<"list", <<one>>>>,
                <<"list", <<one, a>>>>, <<"list", <<<<"str", <<"U+00E9">>>>>>>>,
                <<"list", <<<<"list", <<one>>>>, <<"dict", <<>>>>>>>>,
                <<"dict", <<<<a, one>>>>>>,
                <<"dict", <<<<a, <<"list", <<one>>>>>>, <<<<"str", <<>>>>, a>>>>>>,
                <<"dict", <<<<one, one>>>>>>}
       IN  \E self \in {<<FALSE>>, <<TRUE>>}, v \in texts \cup containers :
               Call("JSONField", <<self, v>>, JSONField_db_value(self, v))

JSONFieldPythonValue ==
    /\ field = "JSONField"
    /\ Status(result) = "ok"
    /\ Load("JSONField", JSONField_python_value(Value(result)))

NextJson ==
    \/ JSONFieldDbValue
    \/ JSONFieldPythonValue

SpecJson == Init /\ [][NextJson]_vars

C30_Arg == value[2]

C30_IsContainer == C30_Arg # <<>> /\ C30_Arg[1] \in {"list", "dict"}

(***************************************************************************)
(* C30: the db_value of JSONField returns every non-empty string that is   *)
(* valid JSON unchanged, raises ValueError for every non-empty string that *)
(* is not valid JSON, maps the empty string and every empty container to   *)
(* "{}", and serializes a non-empty list or dict to a JSON text for which  *)
(* python_value(db_value(v)) = v.                                          *)
(***************************************************************************)
C30_JsonValidated ==
    field = "JSONField" =>
        IF C30_Arg = <<>> \/ (C30_IsContainer /\ C30_Arg[2] = <<>>)
        THEN result = Ok(<<"{", "}">>)
        ELSE IF C30_IsContainer
        THEN /\ Status(result) = "ok"
             /\ Status(decoded) # "none" => decoded = Ok(C30_Arg)
        ELSE IF Status(json_loads(C30_Arg)) = "ok" THEN result = Ok(C30_Arg)
        ELSE Status(result) = "ValueError"

\* the whole of t has the documented format of the field
C29_Conforms(kind, t) ==
    LET allDigits(s) == \A i \in 1..Len(s) : s[i] \in digits
    IN  CASE kind = "HROIBField" -> Len(t) = 11 /\ allDigits(t)
          [] kind = "ILZipCodeField" -> Len(t) \in {5, 7} /\ allDigits(t)
          [] kind = "ROCIFField" ->
                \E k \in 2..10 :
                    /\ Len(t) \in {k, k + 2}
                    /\ Len(t) = k + 2 => SubSeq(t, 1, 2) = <<"R", "O">>
                    /\ allDigits(SubSeq(t, Len(t) - k + 1, Len(t)))

(***************************************************************************)
(* C29: for the fields derived from _BaseRegexField the length bounds fit  *)
(* the pattern: every string that fully matches the regex of the field is  *)
(* accepted by db_value (every 5-digit and 7-digit string for              *)
(* ILZipCodeField, every 11-digit string for HROIBField, RO followed by 2  *)
(* to 10 digits for ROCIFField).                                           *)
(***************************************************************************)
C29_BoundsFitPattern ==
    (/\ field \in {"HROIBField", "ILZipCodeField", "ROCIFField"}
     /\ C29_Conforms(field, value)) =>
        result = Ok(value)

(***************************************************************************)
(* Several threads convert values with one CharFieldCustom, as the         *)
(* requests of a web server do with the field of a model class.  The       *)
(* interpreter switches threads between statements.                       *)
(***************************************************************************)
NumThreads == 2

\* the field is constructed once and each thread calls db_value with its
\* own argument; value keeps <<the field as constructed, the arguments>>
ThreadsStart ==
    /\ Idle
    /\ \E self \in {0, 2} \X BOOLEAN \X {{}, {<<"a","b">>}}
                   \X {{}, {<<"a","b">>, <<"b","U+00E9"," ">>}}
                   \X {None, <<"?">>} \X {TRUE} :
       \E args \in [1..NumThreads ->
                       {<<"a","B">>, <<"B","U+00E9"," ">>, <<"a">>}] :
        /\ field' = "CharFieldCustom threads"
        /\ value' = <<self, args>>
        /\ descriptor' = self
        /\ threads' = [t \in 1..NumThreads |-> <<"use_lower", args[t], NotCalled>>]
        /\ UNCHANGED <<result, decoded>>

\* a thread runs its next statement
ThreadStep ==
    /\ field = "CharFieldCustom threads"
    /\ \E t \in 1..NumThreads :
        /\ threads[t][1] # "done"
        /\ LET r == CharFieldCustom_db_value_statement(descriptor, threads[t][1],
                                                        threads[t][2])
           IN  /\ descriptor' = r[1]
               /\ threads' = [threads EXCEPT ![t] = <<r[2], r[3], r[4]>>]
        /\ UNCHANGED <<field, value, result, decoded>>

NextThreads ==
    \/ ThreadsStart
    \/ ThreadStep

SpecThreads == Init /\ [][NextThreads]_vars

\* C25: no db_value call modifies the field it is called on, so whatever the
\* order in which the statements of the threads' calls are interleaved, the
\* shared field stays as constructed and each finished call has the outcome
\* the same call has when it runs alone.
C25_SharedFieldUnchanged ==
    field = "CharFieldCustom threads" =>
        /\ descriptor = value[1]
        /\ \A t \in 1..NumThreads :
            threads[t][1] = "done" =>
                threads[t][3] = CharFieldCustom_db_value(value[1], value[2][t])

\* two calls with different arguments on a lowering, folding field: the
\* first has finished while the second was between its statements
C25_Witness ==
    /\ field = "CharFieldCustom threads"
    /\ value[1][2] /\ value[1][5] # None
    /\ value[2][1] = <<"a","B">> /\ value[2][2] = <<"B","U+00E9"," ">>
    /\ threads[1][1] = "done" /\ Status(threads[1][3]) = "ok"
    /\ threads[2][1] = "force_ascii"

Next ==
    \/ NextInt
    \/ NextSsn
    \/ NextIso
    \/ NextIan
    \/ NextSwift
    \/ NextIban
    \/ NextIsoStored
    \/ NextColor
    \/ NextRegex
    \/ NextPastDate
    \/ NextCustom
    \/ NextCsv
    \/ NextPositive
    \/ NextIp
    \/ NextJson
    \/ NextThreads

Spec == Init /\ [][Next]_vars

====
